---- MODULE Spec2Model ----
(***************************************************************************)
(* Cognito triggers of terraform-aws-auth-module over one DynamoDB table.  *)
(*                                                                         *)
(* The model follows src/src/post_confirmation_lambda/index.py: the        *)
(* tenant determination (determine_tenant_id), the post-confirmation       *)
(* lambda_handler with its three remote calls (put_item of the IDENTITY    *)
(* item, transact_write_items of PROFILE / SETTINGS / membership,          *)
(* admin_update_user_attributes), the table and the Cognito attributes;    *)
(* and src/src/pre_token_generation_lambda/index.py: the token             *)
(* lambda_handler and the reads of its helpers.                            *)
(*                                                                         *)
(* Specifications: Spec (confirmations racing over one table), SpecLink    *)
(* (a second identity for an existing user), SpecTenant                    *)
(* (determine_tenant_id alone), SpecSingle (one confirmation under every   *)
(* configuration), SpecToken (token issuance over a given table),          *)
(* SpecBoth (confirmations and token issuance over one table), SpecRetry   *)
(* (one event delivered again until an invocation returns; fair),          *)
(* SpecUuid (the id generators of the uuidv7.py files).                    *)
(*                                                                         *)
(* Strings that the code cuts or joins are sequences of tokens: a token is *)
(* a run of characters holding no delimiter, and each delimiter            *)
(* ("#", "@", ".", ":") is a token of its own.  "a@co.example" is          *)
(* <<"a", "@", "co", ".", "example">>; the empty string is <<>>.  The      *)
(* prefix "personal-" that the code tests for is a token as well.          *)
(***************************************************************************)
EXTENDS Integers, Sequences, FiniteSets, TLC

VARIABLES
    config,     \* the module-level settings read once from the environment
    store,      \* users_table: the set of items, keyed by (PK, SK)
    cognito,    \* the user pool: userName -> custom attributes written back
    inv,        \* one record per running or finished lambda invocation
    delivered,  \* how many events the pool has delivered so far
    returns,    \* history: [event, user_id, tenant_id] of every normal return
                \* of the processing path
    resolved,   \* determine_tenant_id called on its own: the last call, as
                \* [event, result], or nothing
    tokgen,     \* the invocation of the pre-token-generation lambda
    issued      \* the id generators called on their own: the calls made, as
                \* [by, unix_ts_ms, rand_a, rand_b, uuid_int]

\* what the post-confirmation handler never touches
aside == <<resolved, tokgen, issued>>

vars == <<config, store, cognito, inv, delivered, returns, aside>>

(***************************************************************************)
(* Bounds of the model.                                                    *)
(***************************************************************************)
NumProcs == 2
MaxDeliveries == 2
MaxUuids == 2
MaxConflictItem == 1

Procs == 1..NumProcs

(***************************************************************************)
(* Strings as token sequences.                                             *)
(***************************************************************************)
\* Python's None, and the value of dict.get on a missing key.
None == <<"<None>">>

\* Python truthiness of an optional string: None and "" are falsy.
Truthy(s) == s # None /\ s # <<>>

\* dict.get(key, default)
Get(d, k, default) == IF k \in DOMAIN d THEN d[k] ELSE default

\* the `in` operator on a string and a one-character needle
Contains(s, tok) == \E i \in 1..Len(s) : s[i] = tok

\* index of the first tok in s, or 0
RECURSIVE FirstIndex(_, _, _)
FirstIndex(s, tok, i) ==
    IF i > Len(s) THEN 0
    ELSE IF s[i] = tok THEN i
    ELSE FirstIndex(s, tok, i + 1)

\* str.split(delimiter): the pieces between the delimiters, in order
RECURSIVE Split(_, _)
Split(s, tok) ==
    LET i == FirstIndex(s, tok, 1)
    IN  IF i = 0 THEN <<s>>
        ELSE <<SubSeq(s, 1, i - 1)>> \o Split(SubSeq(s, i + 1, Len(s)), tok)

\* str.lower() and str.upper() on the tokens that carry capitals in this model
LowerTok(t) ==
    CASE t = "CO" -> "co"
      [] t = "Example" -> "example"
      [] OTHER -> t

UpperTok(t) ==
    CASE t = "Google" -> "GOOGLE"
      [] t = "cognito" -> "COGNITO"
      [] OTHER -> t

Lower(s) == [i \in 1..Len(s) |-> LowerTok(s[i])]
Upper(s) == [i \in 1..Len(s) |-> UpperTok(s[i])]

\* str.startswith(prefix)
StartsWith(s, prefix) ==
    /\ Len(s) >= Len(prefix)
    /\ SubSeq(s, 1, Len(prefix)) = prefix

\* hashlib.md5(identifier.encode()).hexdigest()[:8]: a digest is a function of
\* the identifier and is made of hexadecimal digits only, so it holds none of
\* the delimiters: each delimiter of the input is absorbed into the digest.
HexTok(t) ==
    CASE t = "@" -> "40"
      [] t = "." -> "2e"
      [] t = "#" -> "23"
      [] t = ":" -> "3a"
      [] OTHER -> t

md5_hex8(identifier) ==
    <<"md5">> \o [i \in 1..Len(identifier) |-> HexTok(identifier[i])]

(***************************************************************************)
(* Module-level configuration (index.py lines 27-31).                      *)
(***************************************************************************)
CoExample == <<"co", ".", "example">>
GmailCom == <<"gmail", ".", "com">>
TenantCo == <<"tenant-co">>

\* an empty dict
EmptyDict == [k \in {} |-> <<>>]

\* os.environ defaults: 'domain', 'true', '{}', '[]', 'false'
CfgDefault ==
    [TENANT_STRATEGY |-> "domain",
     ALLOW_PERSONAL_TENANTS |-> TRUE,
     DOMAIN_TENANT_MAP |-> EmptyDict,
     ALLOWED_DOMAINS |-> {},
     REQUIRE_TENANT |-> FALSE]

\* a deployment that maps one organisation's domain to its tenant
CfgMapped ==
    [TENANT_STRATEGY |-> "domain",
     ALLOW_PERSONAL_TENANTS |-> TRUE,
     DOMAIN_TENANT_MAP |-> (CoExample :> TenantCo),
     ALLOWED_DOMAINS |-> {},
     REQUIRE_TENANT |-> FALSE]

\* a locked-down deployment: allow-list, tenant required, no personal tenants
CfgStrict ==
    [TENANT_STRATEGY |-> "strict",
     ALLOW_PERSONAL_TENANTS |-> FALSE,
     DOMAIN_TENANT_MAP |-> (CoExample :> TenantCo),
     ALLOWED_DOMAINS |-> {CoExample},
     REQUIRE_TENANT |-> TRUE]

Configs == {CfgMapped, CfgStrict}

(***************************************************************************)
(* determine_tenant_id (index.py lines 33-138).  The result is either a    *)
(* returned tenant id or a raised ValueError.                              *)
(***************************************************************************)
Returned(v) == [raised |-> FALSE, value |-> v]
Raised(msg) == [raised |-> TRUE, value |-> <<msg>>]

\* lines 87-91: the client-id map is an empty literal in the source
tenant_map == EmptyDict

\* line 118: mail providers whose name is never used as a tenant
PublicMailNames == {"gmail", "hotmail", "yahoo", "outlook", "icloud"}

\* the same hashing the username whether or not there is an email
PersonalOrFallback_ByUsername(cfg, email, username) ==
    IF cfg.ALLOW_PERSONAL_TENANTS \/ cfg.TENANT_STRATEGY = "personal"
    THEN Returned(<<"personal-">> \o md5_hex8(username))
    ELSE IF cfg.REQUIRE_TENANT
    THEN Raised("Unable to determine tenant ID for user registration")
    ELSE Returned(<<"unassigned">>)

\* the same returning "unassigned" whether or not a tenant is required
PersonalOrFallback_NeverRaises(cfg, email, username) ==
    IF cfg.ALLOW_PERSONAL_TENANTS \/ cfg.TENANT_STRATEGY = "personal"
    THEN LET identifier == IF Truthy(email) THEN email ELSE username
         IN  Returned(<<"personal-">> \o md5_hex8(identifier))
    ELSE Returned(<<"unassigned">>)

\* lines 122-138: personal tenant, then the required-tenant error, then the
\* "unassigned" fallback
PersonalOrFallback(cfg, email, username) ==
    IF cfg.ALLOW_PERSONAL_TENANTS \/ cfg.TENANT_STRATEGY = "personal"
    THEN LET identifier == IF Truthy(email) THEN email ELSE username
         IN  Returned(<<"personal-">> \o md5_hex8(identifier))
    ELSE IF cfg.REQUIRE_TENANT
    THEN Raised("Unable to determine tenant ID for user registration")
    ELSE Returned(<<"unassigned">>)

\* the same without the list of public mail providers of line 118
DomainStrategy_NoPublicNames(cfg, email, username) ==
    IF /\ Truthy(email)
       /\ Contains(email, "@")
       /\ cfg.TENANT_STRATEGY \in {"domain", "strict"}
    THEN LET domain == Lower(Split(email, "@")[2])
             potential_tenant == Split(domain, ".")[1]
         IN  IF /\ cfg.ALLOWED_DOMAINS # {}
                /\ domain \notin cfg.ALLOWED_DOMAINS
                /\ cfg.REQUIRE_TENANT
             THEN Raised("Email domain is not allowed for registration")
             ELSE IF domain \in DOMAIN cfg.DOMAIN_TENANT_MAP
             THEN Returned(cfg.DOMAIN_TENANT_MAP[domain])
             ELSE IF /\ DOMAIN cfg.DOMAIN_TENANT_MAP = {}
                     /\ domain # <<>>
                     /\ potential_tenant # <<>>
             THEN Returned(potential_tenant)
             ELSE PersonalOrFallback(cfg, email, username)
    ELSE PersonalOrFallback(cfg, email, username)

\* lines 97-120: the email-domain strategy; falls to PersonalOrFallback
DomainStrategy(cfg, email, username) ==
    IF /\ Truthy(email)
       /\ Contains(email, "@")
       /\ cfg.TENANT_STRATEGY \in {"domain", "strict"}
    THEN LET domain == Lower(Split(email, "@")[2])
             potential_tenant == Split(domain, ".")[1]
         IN  IF /\ cfg.ALLOWED_DOMAINS # {}
                /\ domain \notin cfg.ALLOWED_DOMAINS
                /\ cfg.REQUIRE_TENANT
             THEN Raised("Email domain is not allowed for registration")
             ELSE IF domain \in DOMAIN cfg.DOMAIN_TENANT_MAP
             THEN Returned(cfg.DOMAIN_TENANT_MAP[domain])
             ELSE IF /\ DOMAIN cfg.DOMAIN_TENANT_MAP = {}
                     /\ domain # <<>>
                     /\ potential_tenant # <<>>
                     /\ ~(\E n \in PublicMailNames : potential_tenant = <<n>>)
             THEN Returned(potential_tenant)
             ELSE PersonalOrFallback(cfg, email, username)
    ELSE PersonalOrFallback(cfg, email, username)

\* the same with strategy 2 (lines 62-69) tried before strategy 1
determine_tenant_id_InvitationFirst(cfg, event) ==
    LET user_attributes == event.request.userAttributes
        client_metadata == Get(event.callerContext, "clientMetadata", EmptyDict)
        email == Get(user_attributes, "email", <<>>)
        username == event.userName
        invitation_code == Get(client_metadata, "invitation_code", None)
        invitation_tenant == Get(client_metadata, "invitation_tenant_id", None)
    IN  IF Truthy(invitation_tenant)
        THEN Returned(invitation_tenant)
        ELSE IF "custom:tenant_id" \in DOMAIN user_attributes
        THEN Returned(user_attributes["custom:tenant_id"])
        ELSE IF /\ Truthy(invitation_code)
                /\ cfg.TENANT_STRATEGY = "invitation"
                /\ Contains(invitation_code, ":")
        THEN Returned(Split(invitation_code, ":")[1])
        ELSE DomainStrategy(cfg, email, username)

\* lines 33-138
determine_tenant_id(cfg, event) ==
    LET user_attributes == event.request.userAttributes
        client_metadata == Get(event.callerContext, "clientMetadata", EmptyDict)
        email == Get(user_attributes, "email", <<>>)
        username == event.userName
        invitation_code == Get(client_metadata, "invitation_code", None)
        invitation_tenant == Get(client_metadata, "invitation_tenant_id", None)
        client_id == Get(event.callerContext, "clientId", None)
    IN  IF "custom:tenant_id" \in DOMAIN user_attributes
        THEN Returned(user_attributes["custom:tenant_id"])
        ELSE IF Truthy(invitation_tenant)
        THEN Returned(invitation_tenant)
        ELSE IF /\ Truthy(invitation_code)
                /\ cfg.TENANT_STRATEGY = "invitation"
                /\ Contains(invitation_code, ":")
        THEN Returned(Split(invitation_code, ":")[1])
        ELSE IF Truthy(client_id) /\ client_id \in DOMAIN tenant_map
        THEN Returned(tenant_map[client_id])
        ELSE DomainStrategy(cfg, email, username)

(***************************************************************************)
(* Events delivered by the user pool.  userAttributes, callerContext and   *)
(* clientMetadata are dicts: functions whose domain is the keys present.   *)
(***************************************************************************)
ConfirmSignUp == "PostConfirmation_ConfirmSignUp"
ConfirmForgotPassword == "PostConfirmation_ConfirmForgotPassword"

Event(trigger, userName, attrs, ctx) ==
    [triggerSource |-> trigger,
     userName |-> userName,
     userPoolId |-> <<"pool-1">>,
     request |-> [userAttributes |-> attrs],
     callerContext |-> ctx]

AliceEmail == <<"a", "@", "co", ".", "example">>
BobEmail == <<"b", "@", "gmail", ".", "com">>

\* the JSON text of the identities attribute of a federated (Google) user
GoogleIdentities == <<"[{providerName:Google,userId:g-1}]">>

\* a native sign-up of alice; the pre-sign-up trigger has set custom:user_id
EvAlice ==
    Event(ConfirmSignUp, <<"alice">>,
          ("sub" :> <<"s-1">>) @@ ("email" :> AliceEmail)
              @@ ("custom:user_id" :> <<"uuid", "pre">>),
          EmptyDict)

\* the same person signing up through Google: another subject, same email
EvAliceGoogle ==
    Event(ConfirmSignUp, <<"google_g-1">>,
          ("sub" :> <<"g-1">>) @@ ("email" :> AliceEmail)
              @@ ("identities" :> GoogleIdentities),
          ("clientId" :> <<"client-1">>))

\* a user with a public mail address
EvBob ==
    Event(ConfirmSignUp, <<"bob">>,
          ("sub" :> <<"s-2">>) @@ ("email" :> BobEmail),
          EmptyDict)

\* confirmation events that carry no provider subject
EvNoSub ==
    Event(ConfirmSignUp, <<"carol">>, ("email" :> AliceEmail), EmptyDict)

EvEmptySub ==
    Event(ConfirmSignUp, <<"carol">>,
          ("sub" :> <<>>) @@ ("email" :> AliceEmail), EmptyDict)

\* a post-confirmation event of the forgot-password flow
EvForgot ==
    Event(ConfirmForgotPassword, <<"alice">>,
          ("sub" :> <<"s-1">>) @@ ("email" :> AliceEmail), EmptyDict)

Events == {EvAlice, EvAliceGoogle, EvBob, EvNoSub, EvEmptySub, EvForgot}

UserNames == {e.userName : e \in Events}

\* str(uuidv7()): the id is made of the clock and of random bits, and the
\* handler never compares it with what the table holds, so every id of the
\* space is a possible outcome of every call.  Ids are only ever compared for
\* equality, so what matters of a new id is which earlier id it equals, if
\* any: after n distinct ids were drawn, the outcomes are those n and one more.
UuidStr(n) == <<"uuid", ToString(n)>>
UuidSpace(drawn) ==
    {UuidStr(n) : n \in 1..(IF drawn < MaxUuids THEN drawn + 1 ELSE MaxUuids)}

(***************************************************************************)
(* json.loads on the identities texts of the events.                       *)
(***************************************************************************)
json_loads(text) ==
    CASE text = GoogleIdentities ->
            [ok |-> TRUE,
             list |-> << ("providerName" :> <<"Google">>)
                             @@ ("userId" :> <<"g-1">>) >>]
      [] text = <<"[]">> -> [ok |-> TRUE, list |-> <<>>]
      [] OTHER -> [ok |-> FALSE, list |-> <<>>]

\* the same without the reading of the identities attribute (lines 190-206)
IdentityProvider_Native(user_attributes) ==
    [provider |-> <<"COGNITO">>, federated_details |-> EmptyDict]

\* lines 186-206: the provider name and the federated details
IdentityProvider(user_attributes) ==
    LET native == [provider |-> <<"COGNITO">>, federated_details |-> EmptyDict]
        identities_str == Get(user_attributes, "identities", <<"[]">>)
        parsed == json_loads(identities_str)
    IN  IF "identities" \notin DOMAIN user_attributes THEN native
        ELSE IF ~Truthy(identities_str) THEN native
        ELSE IF ~parsed.ok \/ parsed.list = <<>> THEN native
        ELSE LET identity_info == parsed.list[1]
             IN  [provider |->
                      Upper(Get(identity_info, "providerName", <<"COGNITO">>)),
                  federated_details |->
                      ("federatedUserId" :> Get(identity_info, "userId", <<>>))
                      @@ ("federatedIssuer" :> Get(identity_info, "issuer", <<>>))
                      @@ ("federatedDateCreated" :>
                              Get(identity_info, "dateCreated", <<>>))]

(***************************************************************************)
(* The items of the table (lines 208-301).  createdAt / updatedAt /        *)
(* joinedAt hold the wall clock and are read by nothing; they are left out.*)
(***************************************************************************)
TenantUserKey(tenant_id, user_id) ==
    <<"TENANT", "#">> \o tenant_id \o <<"#", "USER", "#">> \o user_id
TenantKey(tenant_id) == <<"TENANT", "#">> \o tenant_id
UserKey(user_id) == <<"USER", "#">> \o user_id
IdentKey(cognito_sub) == <<"IDENT", "#">> \o cognito_sub
IdentitySK(provider) == <<"IDENTITY", "#">> \o provider

\* lines 213-231
identity_item(tenant_id, user_id, provider, federated_details, cognito_sub, username) ==
    federated_details @@
    [PK |-> TenantUserKey(tenant_id, user_id),
     SK |-> IdentitySK(provider),
     entityType |-> <<"IDENTITY">>,
     providerSub |-> cognito_sub,
     provider |-> provider,
     username |-> username,
     tenantId |-> tenant_id,
     GSI2PK |-> IdentKey(cognito_sub),
     GSI2SK |-> TenantUserKey(tenant_id, user_id),
     GSI3PK |-> TenantKey(tenant_id),
     GSI3SK |-> UserKey(user_id)]

\* lines 249-261
profile_item(tenant_id, user_id) ==
    [PK |-> TenantUserKey(tenant_id, user_id),
     SK |-> <<"PROFILE">>,
     userId |-> user_id,
     tenantId |-> tenant_id,
     status |-> <<"ACTIVE">>,
     entityType |-> <<"USER">>,
     GSI3PK |-> TenantKey(tenant_id),
     GSI3SK |-> UserKey(user_id)]

\* lines 264-285
settings_item(tenant_id, user_id) ==
    [PK |-> TenantUserKey(tenant_id, user_id),
     SK |-> <<"SETTINGS">>,
     entityType |-> <<"SETTINGS">>,
     tenantId |-> tenant_id,
     preferences |-> [theme |-> <<"light">>, language |-> <<"en">>],
     GSI3PK |-> TenantKey(tenant_id),
     GSI3SK |-> UserKey(user_id)]

\* the same without the role of lines 299-300
tenant_membership_item_Member(tenant_id, user_id) ==
    [PK |-> UserKey(user_id),
     SK |-> TenantKey(tenant_id),
     status |-> <<"ACTIVE">>,
     role |-> <<"member">>,
     tenantId |-> tenant_id,
     GSI4PK |-> UserKey(user_id),
     GSI4SK |-> TenantKey(tenant_id)]

\* lines 288-301
tenant_membership_item(tenant_id, user_id) ==
    [PK |-> UserKey(user_id),
     SK |-> TenantKey(tenant_id),
     status |-> <<"ACTIVE">>,
     role |-> IF StartsWith(tenant_id, <<"personal-">>)
              THEN <<"admin">> ELSE <<"member">>,
     tenantId |-> tenant_id,
     GSI4PK |-> UserKey(user_id),
     GSI4SK |-> TenantKey(tenant_id)]

\* lines 304-326
transaction_items(tenant_id, user_id) ==
    <<profile_item(tenant_id, user_id),
      settings_item(tenant_id, user_id),
      tenant_membership_item(tenant_id, user_id)>>

(***************************************************************************)
(* The remote calls.  Each is one atomic step against the table or the     *)
(* user pool; `fault` is the failure the environment injects ("none" for   *)
(* a call that reaches the service and is answered).                       *)
(***************************************************************************)
OK == "ok"
ConditionalCheckFailedException == "ConditionalCheckFailedException"
TransactionCanceledException == "TransactionCanceledException"
ConditionalCheckFailed == "ConditionalCheckFailed"
TransactionConflict == "TransactionConflict"

\* Any failure of a call other than the two codes the handler looks for: a
\* ClientError with another code (re-raised by the inner `raise e`) or an
\* exception that is no ClientError (not caught by the inner handler); both
\* reach the outer `except Exception` of lines 372-374, which raises again.
OtherError == "ProvisionedThroughputExceededException"
CallFaults == {"none", OtherError}

\* per-item causes of a cancelled transaction other than its condition: no
\* item conflicts, or item k (of the first MaxConflictItem) is in conflict
\* with another transaction
ItemFaults ==
    {[i \in 1..3 |-> IF i = k THEN TransactionConflict ELSE "None"] :
        k \in 0..MaxConflictItem}

KeyExists(st, pk, sk) == \E i \in st : i.PK = pk /\ i.SK = sk

\* the same without the condition: the item replaces the one of its key
put_item_Unconditional(st, item, fault) ==
    LET code == IF fault # "none" THEN fault ELSE OK
    IN  [code |-> code,
         reasons |-> <<>>,
         store |-> IF code = OK
                   THEN {i \in st : ~(i.PK = item.PK /\ i.SK = item.SK)}
                            \cup {item}
                   ELSE st]

\* users_table.put_item(Item, ConditionExpression='attribute_not_exists(SK)')
put_item(st, item, fault) ==
    LET code == IF fault # "none" THEN fault
                ELSE IF KeyExists(st, item.PK, item.SK)
                THEN ConditionalCheckFailedException
                ELSE OK
    IN  [code |-> code,
         reasons |-> <<>>,
         store |-> IF code = OK THEN st \cup {item} ELSE st]

\* the same as a batch that is not atomic: every item whose own reason is
\* "None" is written, also when the call is cancelled for another item
transact_write_items_PerItem(st, items, item_faults, fault) ==
    LET reasons == [i \in 1..Len(items) |->
                       IF item_faults[i] # "None" THEN item_faults[i]
                       ELSE IF KeyExists(st, items[i].PK, items[i].SK)
                       THEN ConditionalCheckFailed
                       ELSE "None"]
        code == IF fault # "none" THEN fault
                ELSE IF \A i \in 1..Len(items) : reasons[i] = "None" THEN OK
                ELSE TransactionCanceledException
    IN  [code |-> code,
         reasons |-> IF code = TransactionCanceledException
                     THEN reasons ELSE <<>>,
         store |-> IF fault # "none" THEN st
                   ELSE st \cup {items[i] : i \in
                                    {j \in 1..Len(items) : reasons[j] = "None"}}]

\* dynamodb_client.transact_write_items(TransactItems), every item a Put with
\* ConditionExpression 'attribute_not_exists(PK)': all items or none
transact_write_items(st, items, item_faults, fault) ==
    LET reasons == [i \in 1..Len(items) |->
                       IF item_faults[i] # "None" THEN item_faults[i]
                       ELSE IF KeyExists(st, items[i].PK, items[i].SK)
                       THEN ConditionalCheckFailed
                       ELSE "None"]
        code == IF fault # "none" THEN fault
                ELSE IF \A i \in 1..Len(items) : reasons[i] = "None" THEN OK
                ELSE TransactionCanceledException
    IN  [code |-> code,
         reasons |-> IF code = TransactionCanceledException
                     THEN reasons ELSE <<>>,
         store |-> IF code = OK
                   THEN st \cup {items[i] : i \in 1..Len(items)}
                   ELSE st]

\* cognito_client.admin_update_user_attributes(UserPoolId, Username,
\* UserAttributes=[custom:user_id, custom:tenant_id])
admin_update_user_attributes(pool, username, user_id, tenant_id, fault) ==
    [code |-> IF fault # "none" THEN fault ELSE OK,
     reasons |-> <<>>,
     cognito |-> IF fault # "none" THEN pool
                 ELSE [pool EXCEPT ![username] =
                          [user_id |-> user_id, tenant_id |-> tenant_id]]]

(***************************************************************************)
(* lambda_handler of the post-confirmation trigger (lines 140-374).        *)
(*                                                                         *)
(* pc: "idle" before the first event, "put_identity" / "transact" /        *)
(* "update_attributes" before the respective remote call, "returned" after *)
(* `return event`, "raised" after an exception left the handler.           *)
(***************************************************************************)
NoCalls == <<>>

\* the handler state at line 148
Blank(event) ==
    [pc |-> "raised", event |-> event, result |-> {},
     tenant_id |-> None, user_id |-> None,
     provider |-> None, federated_details |-> EmptyDict,
     error |-> "none", calls |-> NoCalls]

\* lines 170-231: the tenant, the new user id, the provider.  `uuid` is the
\* value str(uuidv7()) yields at line 183.
Prepare(cfg, event, uuid) ==
    LET tenant == determine_tenant_id(cfg, event)
        idp == IdentityProvider(event.request.userAttributes)
    IN  IF tenant.raised
        THEN [Blank(event) EXCEPT !.error = tenant.value[1]]
        ELSE IF ~Truthy(tenant.value)
        THEN [Blank(event) EXCEPT
                 !.error = "Tenant determination failed - empty tenant ID"]
        ELSE [Blank(event) EXCEPT
                 !.pc = "put_identity",
                 !.tenant_id = tenant.value,
                 !.user_id = uuid,
                 !.provider = idp.provider,
                 !.federated_details = idp.federated_details]

\* the same without the check of lines 165-168
Process_NoSubCheck(cfg, event, uuid) == Prepare(cfg, event, uuid)

\* lines 157-168: the essential ids
Process(cfg, event, uuid) ==
    LET cognito_sub == Get(event.request.userAttributes, "sub", None)
    IN  IF ~Truthy(cognito_sub)
        THEN [Blank(event) EXCEPT !.error = "Missing Cognito 'sub'"]
        ELSE Prepare(cfg, event, uuid)

\* the same without the check of lines 151-155
Entry_NoTriggerCheck(cfg, event, uuid) == Process(cfg, event, uuid)

\* lines 148-231: everything before the first remote call
Entry(cfg, event, uuid) ==
    IF event.triggerSource # ConfirmSignUp
    THEN [Blank(event) EXCEPT !.pc = "returned", !.result = {event}]
    ELSE Process(cfg, event, uuid)

\* the same, going on after any failure of the put
OnPutItem_Swallow(code) == "transact"

\* lines 234-246: what the handler does with the outcome of put_item
OnPutItem(code) ==
    IF code = OK \/ code = ConditionalCheckFailedException
    THEN "transact"
    ELSE "raised"

\* the same, raising on every cancellation
OnTransact_RaiseOnCancel(code, reasons) ==
    IF code = OK THEN "update_attributes" ELSE "raised"

\* lines 328-345: what the handler does with the outcome of the transaction
OnTransact(code, reasons) ==
    IF code = OK THEN "update_attributes"
    ELSE IF code = TransactionCanceledException
    THEN LET conditional_check_failed ==
                 \E i \in 1..Len(reasons) : reasons[i] = ConditionalCheckFailed
         IN  IF conditional_check_failed
             THEN "update_attributes"
             ELSE "raised"
    ELSE "raised"

\* the same, returning the event also when the update failed
OnUpdateAttributes_Swallow(code) == "returned"

\* lines 348-370: what the handler does with the outcome of the attribute update
OnUpdateAttributes(code) ==
    IF code = OK THEN "returned" ELSE "raised"

\* the record of one remote call and the handler state that follows it
AfterCall(r, op, res, next_pc) ==
    [r EXCEPT !.pc = next_pc,
              !.error = IF next_pc = "raised" THEN res.code ELSE "none",
              !.result = IF next_pc = "returned" THEN {r.event} ELSE {},
              !.calls = Append(@, [op |-> op, code |-> res.code,
                                   reasons |-> res.reasons])]

(***************************************************************************)
(* lambda_handler of the pre-token-generation trigger                      *)
(* (src/src/pre_token_generation_lambda/index.py, lines 16-161) and its    *)
(* helpers (lines 163-291).  The handler only reads the table.             *)
(*                                                                         *)
(* The response of the event comes in four shapes: "absent" (the event has *)
(* no 'response' key), "empty" (response is {}), "null" (response holds    *)
(* claimsOverrideDetails: None) and "details" (it holds                    *)
(* claimsOverrideDetails: {}).  `claims` is the claimsToAddOrOverride dict *)
(* of the event once lines 40-47 have made it.                             *)
(*                                                                         *)
(* pc: "idle", then the store call the handler stands before               *)
(* ("get_membership", "get_user_tenants", "count_user_tenants",            *)
(* "get_profile", "get_user_groups", "get_settings", "query_sub"), then    *)
(* "returned" after `return event` or "raised" after an exception left the *)
(* handler.                                                                *)
(***************************************************************************)
TokenEvent(trigger, userName, attrs, response) ==
    [triggerSource |-> trigger,
     userName |-> userName,
     userPoolId |-> <<"pool-1">>,
     request |-> [userAttributes |-> attrs],
     response |-> response]

TokBlank(event) ==
    [pc |-> "returned", event |-> event, flow |-> "none",
     user_id |-> None, tenant_id |-> None, membership |-> {},
     has_claims |-> FALSE, claims |-> EmptyDict,
     calls |-> NoCalls, result |-> {event}]

TokIdle ==
    [TokBlank(TokenEvent("idle", <<>>, EmptyDict, "absent")) EXCEPT
        !.pc = "idle", !.result = {}]

\* claims[name] = value
SetClaim(r, name, value) ==
    [r EXCEPT !.claims = (name :> value) @@ r.claims]

\* lines 80-81, 99-100, 130-131
SetBaseClaims(r, user_id, tenant_id) ==
    SetClaim(SetClaim(r, "user_id", user_id), "tenant_id", tenant_id)

\* the same as a handler that lets the exception go, as the
\* post-confirmation handler does
OuterExcept_Raise(r) == [r EXCEPT !.pc = "raised", !.result = {}]

\* lines 159-161: the outer handler logs and returns the event
OuterExcept(r) == [r EXCEPT !.pc = "returned", !.result = {r.event}]

\* lines 23-55 and 104-105: everything before the first store call
TokEntry(event) ==
    LET user_attributes == event.request.userAttributes
        cognito_sub == Get(user_attributes, "sub", None)
        r == TokBlank(event)
    IN  IF ~Truthy(cognito_sub) THEN r
        ELSE IF event.response \in {"absent", "null"}
        THEN OuterExcept(r)
        ELSE IF /\ "custom:user_id" \in DOMAIN user_attributes
                /\ "custom:tenant_id" \in DOMAIN user_attributes
        THEN [r EXCEPT !.pc = "get_membership",
                       !.flow = "attributes",
                       !.has_claims = TRUE,
                       !.result = {},
                       !.user_id = user_attributes["custom:user_id"],
                       !.tenant_id = user_attributes["custom:tenant_id"]]
        ELSE [r EXCEPT !.pc = "query_sub",
                       !.flow = "lookup",
                       !.has_claims = TRUE,
                       !.result = {}]

\* The order of the tokens as strings (byte order, as the table sorts keys).
TokenOrder ==
    <<"#", "1", "2", "3", "GROUP", "IDENT", "IDENTITY", "PROFILE", "SETTINGS",
      "TENANT", "USER", "admins", "devs", "personal-", "tenant-a", "tenant-b",
      "tenant-co", "unassigned", "uuid">>

Rank(t) == CHOOSE i \in 1..Len(TokenOrder) : TokenOrder[i] = t

\* a < b for two keys
RECURSIVE KeyLess(_, _)
KeyLess(a, b) ==
    IF b = <<>> THEN FALSE
    ELSE IF a = <<>> THEN TRUE
    ELSE IF Head(a) = Head(b) THEN KeyLess(Tail(a), Tail(b))
    ELSE Rank(Head(a)) < Rank(Head(b))

\* the items in ascending order of their attribute k
RECURSIVE SortedBy(_, _)
SortedBy(items, k) ==
    IF items = {} THEN <<>>
    ELSE LET first == CHOOSE i \in items :
                          \A j \in items : ~KeyLess(j[k], i[k])
         IN  <<first>> \o SortedBy(items \ {first}, k)

\* users_table.get_item(Key={'PK': pk, 'SK': sk}).get('Item', {})
get_item(st, pk, sk, fault) ==
    [code |-> IF fault # "none" THEN fault ELSE OK,
     items |-> IF fault # "none" THEN {}
               ELSE {i \in st : i.PK = pk /\ i.SK = sk}]

\* users_table.query(PK = pk and begins_with(SK, prefix)): in sort-key order
query(st, pk, prefix, fault) ==
    [code |-> IF fault # "none" THEN fault ELSE OK,
     items |-> IF fault # "none" THEN <<>>
               ELSE SortedBy({i \in st : i.PK = pk /\ StartsWith(i.SK, prefix)},
                             "SK")]

\* users_table.query(IndexName="GSI2", GSI2PK = pk): in index sort-key order
query_GSI2(st, pk, fault) ==
    [code |-> IF fault # "none" THEN fault ELSE OK,
     items |-> IF fault # "none" THEN <<>>
               ELSE SortedBy({i \in st : "GSI2PK" \in DOMAIN i /\ i.GSI2PK = pk},
                             "GSI2SK")]

\* str.replace(old, ''), old a pair of tokens
RECURSIVE Remove(_, _)
Remove(s, old) ==
    IF Len(s) < 2 THEN s
    ELSE IF SubSeq(s, 1, 2) = old THEN Remove(SubSeq(s, 3, Len(s)), old)
    ELSE <<Head(s)>> \o Remove(Tail(s), old)

\* json.dumps of the list of groups
RECURSIVE json_dumps(_)
json_dumps(groups) ==
    IF groups = <<>> THEN <<>>
    ELSE <<"{">> \o Head(groups).id \o <<",">> \o Head(groups).role \o <<"}">>
         \o json_dumps(Tail(groups))

\* lines 56-100: after the get_item of the membership
AfterMembership(r, res) ==
    IF res.code # OK
    THEN [SetBaseClaims(r, r.user_id, r.tenant_id) EXCEPT
             !.pc = "returned", !.result = {r.event}]
    ELSE IF res.items = {}
    THEN [r EXCEPT !.pc = "get_user_tenants"]
    ELSE LET tenant_membership == CHOOSE i \in res.items : TRUE
             based == SetBaseClaims(r, r.user_id, r.tenant_id)
             roled == IF "role" \in DOMAIN tenant_membership
                      THEN SetClaim(based, "role", tenant_membership.role)
                      ELSE based
         IN  [roled EXCEPT !.pc = "count_user_tenants",
                           !.membership = res.items]

\* lines 163-189 and 68-81: after the query of get_user_tenants
AfterUserTenants(r, res) ==
    LET available_tenants ==
            IF res.code # OK THEN <<>>
            ELSE [n \in 1..Len(res.items) |->
                     Remove(res.items[n].SK, <<"TENANT", "#">>)]
        tenant_id == IF available_tenants = <<>> THEN r.tenant_id
                     ELSE available_tenants[1]
    IN  [SetBaseClaims(r, r.user_id, tenant_id) EXCEPT
            !.pc = "count_user_tenants", !.tenant_id = tenant_id]

\* str(tenant_count)
Str(n) == <<ToString(n)>>

\* the same emitting the hint from one membership on
AfterCount_FromOne(r, res) ==
    LET tenant_count == IF res.code # OK THEN 0 ELSE Len(res.items)
        counted == IF tenant_count > 0
                   THEN SetClaim(SetClaim(r, "has_multiple_tenants", <<"true">>),
                                 "tenant_count", Str(tenant_count))
                   ELSE r
        trigger_source == r.event.triggerSource
        auth_type == IF trigger_source = "TokenGeneration_HostedAuth"
                     THEN <<"federated">>
                     ELSE IF trigger_source = "TokenGeneration_RefreshTokens"
                     THEN <<"refresh">>
                     ELSE <<"password">>
        typed == IF r.flow = "lookup"
                 THEN SetClaim(counted, "auth_type", auth_type)
                 ELSE counted
    IN  [typed EXCEPT !.pc = "get_profile"]

\* lines 191-212, 87-91 and 133-145: after the query of count_user_tenants
AfterCount(r, res) ==
    LET tenant_count == IF res.code # OK THEN 0 ELSE Len(res.items)
        counted == IF tenant_count > 1
                   THEN SetClaim(SetClaim(r, "has_multiple_tenants", <<"true">>),
                                 "tenant_count", Str(tenant_count))
                   ELSE r
        trigger_source == r.event.triggerSource
        auth_type == IF trigger_source = "TokenGeneration_HostedAuth"
                     THEN <<"federated">>
                     ELSE IF trigger_source = "TokenGeneration_RefreshTokens"
                     THEN <<"refresh">>
                     ELSE <<"password">>
        typed == IF r.flow = "lookup"
                 THEN SetClaim(counted, "auth_type", auth_type)
                 ELSE counted
    IN  [typed EXCEPT !.pc = "get_profile"]

\* the same with a failed profile read discarding the claims set so far
AfterProfile_DropClaims(r, res) ==
    IF res.code # OK
    THEN [r EXCEPT !.pc = "returned", !.result = {r.event},
                   !.claims = EmptyDict]
    ELSE IF res.items = {}
    THEN [r EXCEPT !.pc = "get_settings"]
    ELSE LET user_profile == CHOOSE i \in res.items : TRUE
             named == IF "displayName" \in DOMAIN user_profile
                      THEN SetClaim(r, "display_name", user_profile.displayName)
                      ELSE r
             tiered == IF "accountTier" \in DOMAIN user_profile
                       THEN SetClaim(named, "account_tier",
                                     user_profile.accountTier)
                       ELSE named
         IN  [tiered EXCEPT !.pc = "get_user_groups"]

\* lines 224-240: after the get_item of the profile; a failure ends the
\* enrichment (lines 259-260) and the handler returns
AfterProfile(r, res) ==
    IF res.code # OK
    THEN [r EXCEPT !.pc = "returned", !.result = {r.event}]
    ELSE IF res.items = {}
    THEN [r EXCEPT !.pc = "get_settings"]
    ELSE LET user_profile == CHOOSE i \in res.items : TRUE
             named == IF "displayName" \in DOMAIN user_profile
                      THEN SetClaim(r, "display_name", user_profile.displayName)
                      ELSE r
             tiered == IF "accountTier" \in DOMAIN user_profile
                       THEN SetClaim(named, "account_tier",
                                     user_profile.accountTier)
                       ELSE named
         IN  [tiered EXCEPT !.pc = "get_user_groups"]

\* lines 262-291 and 238-240: after the query of get_user_groups, which
\* returns nothing when the query fails
AfterGroups(r, res) ==
    LET user_groups ==
            IF res.code # OK THEN <<>>
            ELSE [n \in 1..Len(res.items) |->
                     [id |-> Remove(res.items[n].SK, <<"GROUP", "#">>),
                      role |-> Get(res.items[n], "role", <<"member">>)]]
        grouped == IF user_groups # <<>>
                   THEN SetClaim(r, "groups", json_dumps(user_groups))
                   ELSE r
    IN  [grouped EXCEPT !.pc = "get_settings"]

\* lines 242-260: after the get_item of the settings
AfterSettings(r, res) ==
    LET done == [r EXCEPT !.pc = "returned", !.result = {r.event}]
    IN  IF res.code # OK \/ res.items = {} THEN done
        ELSE LET user_settings == CHOOSE i \in res.items : TRUE
             IN  IF /\ "preferences" \in DOMAIN user_settings
                    /\ "language" \in DOMAIN user_settings.preferences
                 THEN SetClaim(done, "preferred_language",
                               user_settings.preferences.language)
                 ELSE done

\* the same taking the subject for the user when the index holds no link
AfterQuerySub_SubAsUser(r, res) ==
    LET done == [r EXCEPT !.pc = "returned", !.result = {r.event}]
        sub == r.event.request.userAttributes["sub"]
    IN  IF res.code # OK THEN done
        ELSE IF res.items = <<>>
        THEN SetBaseClaims(done, sub, <<"unassigned">>)
        ELSE LET gsi2_sk == res.items[1].GSI2SK
                 parts == Split(gsi2_sk, "#")
                 tenant_id == IF Len(parts) > 1 THEN parts[2] ELSE None
                 user_id == IF Len(parts) > 3 THEN parts[4] ELSE None
             IN  IF Truthy(tenant_id) /\ Truthy(user_id)
                 THEN [SetBaseClaims(r, user_id, tenant_id) EXCEPT
                          !.pc = "count_user_tenants",
                          !.user_id = user_id,
                          !.tenant_id = tenant_id]
                 ELSE done

\* lines 104-157: after the query of the subject index
AfterQuerySub(r, res) ==
    LET done == [r EXCEPT !.pc = "returned", !.result = {r.event}]
    IN  IF res.code # OK \/ res.items = <<>> THEN done
        ELSE LET gsi2_sk == res.items[1].GSI2SK
                 parts == Split(gsi2_sk, "#")
                 tenant_id == IF Len(parts) > 1 THEN parts[2] ELSE None
                 user_id == IF Len(parts) > 3 THEN parts[4] ELSE None
             IN  IF Truthy(tenant_id) /\ Truthy(user_id)
                 THEN [SetBaseClaims(r, user_id, tenant_id) EXCEPT
                          !.pc = "count_user_tenants",
                          !.user_id = user_id,
                          !.tenant_id = tenant_id]
                 ELSE done

\* the record of one store call
Called(r, op, res) ==
    [r EXCEPT !.calls = Append(@, [op |-> op, code |-> res.code,
                                   reasons |-> <<>>])]

(***************************************************************************)
(* State machine.                                                          *)
(***************************************************************************)
Idle ==
    [pc |-> "idle", event |-> EvForgot, result |-> {},
     tenant_id |-> None, user_id |-> None,
     provider |-> None, federated_details |-> EmptyDict,
     error |-> "none", calls |-> NoCalls,
     linked_at_start |-> FALSE, redelivery |-> FALSE, email_owners |-> {}]

Init ==
    /\ config \in Configs
    /\ store = {}
    /\ cognito = [u \in UserNames |-> [user_id |-> None, tenant_id |-> None]]
    /\ inv = [p \in Procs |-> Idle]
    /\ delivered = 0
    /\ returns = {}
    /\ resolved = {}
    /\ tokgen = TokIdle
    /\ issued = {}

\* the IDENTITY items the subject-lookup index (GSI2) holds for a subject
IdentityLinks(st, cognito_sub) ==
    {i \in st : "GSI2PK" \in DOMAIN i /\ i.GSI2PK = IdentKey(cognito_sub)}

\* What the table and the history held when the event arrived: whether the
\* subject was already linked, whether this very event had already been
\* confirmed, and the user ids earlier confirmations gave to the same email.
Arrival(event) ==
    LET ua == event.request.userAttributes
        email == Get(ua, "email", <<>>)
    IN  [linked_at_start |->
             IdentityLinks(store, Get(ua, "sub", None)) # {},
         redelivery |-> \E r \in returns : r.event = event,
         email_owners |->
             {r.user_id : r \in
                 {x \in returns :
                     /\ Truthy(email)
                     /\ Get(x.event.request.userAttributes, "email", <<>>)
                            = email}}]

FreePcs == {"idle", "returned", "raised"}

\* the ids drawn so far that the state still remembers
DrawnUuids ==
    {u \in {UuidStr(n) : n \in 1..MaxUuids} :
        \/ \E p \in Procs : inv[p].user_id = u
        \/ \E i \in store : "GSI3SK" \in DOMAIN i /\ i.GSI3SK = UserKey(u)}

\* The user pool delivers one of `events` to a free handler instance, which
\* runs up to its first remote call; at most `limit` events are delivered.
Deliver(p, events, limit) ==
    /\ inv[p].pc \in FreePcs
    /\ \A q \in Procs : q < p => inv[q].pc # "idle"
    /\ delivered < limit
    /\ \E event \in events, uuid \in UuidSpace(Cardinality(DrawnUuids)) :
          inv' = [inv EXCEPT ![p] = Entry(config, event, uuid) @@ Arrival(event)]
    /\ delivered' = delivered + 1
    /\ UNCHANGED <<config, store, cognito, returns, aside>>

Invoke(p) ==
    Deliver(p, Events, MaxDeliveries)

\* lines 233-246
PutIdentity(p) ==
    /\ inv[p].pc = "put_identity"
    /\ \E fault \in CallFaults :
          LET r == inv[p]
              ua == r.event.request.userAttributes
              item == identity_item(r.tenant_id, r.user_id, r.provider,
                                    r.federated_details,
                                    Get(ua, "sub", None),
                                    r.event.userName)
              res == put_item(store, item, fault)
              next == AfterCall(r, "put_item", res, OnPutItem(res.code))
          IN  /\ store' = res.store
              /\ inv' = [inv EXCEPT ![p] = next]
    /\ UNCHANGED <<config, cognito, delivered, returns, aside>>

\* lines 303-345
Transact(p) ==
    /\ inv[p].pc = "transact"
    /\ \E fault \in CallFaults, item_faults \in ItemFaults :
          LET r == inv[p]
              res == transact_write_items(
                         store, transaction_items(r.tenant_id, r.user_id),
                         item_faults, fault)
              next == AfterCall(r, "transact_write_items", res,
                                OnTransact(res.code, res.reasons))
          IN  /\ store' = res.store
              /\ inv' = [inv EXCEPT ![p] = next]
    /\ UNCHANGED <<config, cognito, delivered, returns, aside>>

\* lines 347-370
UpdateAttributes(p) ==
    /\ inv[p].pc = "update_attributes"
    /\ \E fault \in CallFaults :
          LET r == inv[p]
              res == admin_update_user_attributes(
                         cognito, r.event.userName, r.user_id, r.tenant_id,
                         fault)
              next == AfterCall(r, "admin_update_user_attributes", res,
                                OnUpdateAttributes(res.code))
          IN  /\ cognito' = res.cognito
              /\ inv' = [inv EXCEPT ![p] = next]
              /\ returns' =
                     IF next.pc = "returned"
                     THEN returns \cup {[event |-> r.event,
                                         user_id |-> r.user_id,
                                         tenant_id |-> r.tenant_id]}
                     ELSE returns
    /\ UNCHANGED <<config, store, delivered, aside>>

Next ==
    \E p \in Procs :
        \/ Invoke(p)
        \/ PutIdentity(p)
        \/ Transact(p)
        \/ UpdateAttributes(p)

Spec == Init /\ [][Next]_vars

(***************************************************************************)
(* Vocabulary of the properties.                                           *)
(***************************************************************************)
Confirmations == {p \in Procs : inv[p].pc # "idle"}

SubOf(r) == Get(r.event.request.userAttributes, "sub", None)

\* the records one call added to the table
NewRecords(c) ==
    IF c.code # OK THEN 0
    ELSE IF c.op = "put_item" THEN 1
    ELSE IF c.op = "transact_write_items" THEN 3
    ELSE 0

\* the call was rejected by a uniqueness predicate and by nothing else
PredicateOnly(c) ==
    \/ c.op = "put_item" /\ c.code = ConditionalCheckFailedException
    \/ /\ c.op = "transact_write_items"
       /\ c.code = TransactionCanceledException
       /\ \A i \in 1..Len(c.reasons) :
              c.reasons[i] \in {"None", ConditionalCheckFailed}

\* the cancelled transaction carries a reason that is no predicate failure
HasNonPredicateReason(c) ==
    /\ c.op = "transact_write_items"
    /\ c.code = TransactionCanceledException
    /\ \E i \in 1..Len(c.reasons) :
           c.reasons[i] \notin {"None", ConditionalCheckFailed}

IsProfile(i, t, u) == i.PK = TenantUserKey(t, u) /\ i.SK = <<"PROFILE">>
IsSettings(i, t, u) == i.PK = TenantUserKey(t, u) /\ i.SK = <<"SETTINGS">>
IsMembership(i, t, u) == i.PK = UserKey(u) /\ i.SK = TenantKey(t)

\* every tenant id and user id the table or a handler mentions
KnownTenants ==
    {i.tenantId : i \in store} \cup {inv[p].tenant_id : p \in Confirmations}
KnownUsers ==
    {UuidStr(n) : n \in 1..MaxUuids} \cup {inv[p].user_id : p \in Confirmations}

(***************************************************************************)
(* C1.  The user id of a provider subject is stable: all IDENTITY items    *)
(* whose subject-lookup key is IDENT#<sub> for one sub carry one user id,  *)
(* and two confirmations of an identical event return the same user id and *)
(* tenant id.  The handler draws a new id on every delivery (line 183), so *)
(* this fails.                                                             *)
(***************************************************************************)
C1_SubjectHasOneUserId ==
    /\ \A i, j \in store :
          ("GSI2PK" \in DOMAIN i /\ "GSI2PK" \in DOMAIN j /\ i.GSI2PK = j.GSI2PK)
              => i.GSI3SK = j.GSI3SK
    /\ \A a, b \in returns :
          a.event = b.event
              => a.user_id = b.user_id /\ a.tenant_id = b.tenant_id

(***************************************************************************)
(* C2.  Two confirmations of one subject that both arrived before any link *)
(* existed and both returned agree on the user id, and exactly one of them *)
(* created the IDENTITY item while the other saw the conditional check     *)
(* fail.  Both puts succeed under different ids, so this fails.            *)
(***************************************************************************)
C2_RacingConfirmationsConverge ==
    \A p, q \in Confirmations :
        (/\ p # q
         /\ inv[p].pc = "returned" /\ inv[q].pc = "returned"
         /\ inv[p].calls # <<>> /\ inv[q].calls # <<>>
         /\ SubOf(inv[p]) = SubOf(inv[q])
         /\ ~inv[p].linked_at_start /\ ~inv[q].linked_at_start)
        => /\ inv[p].user_id = inv[q].user_id
           /\ {inv[p].calls[1].code, inv[q].calls[1].code}
                  = {OK, ConditionalCheckFailedException}

(***************************************************************************)
(* C3.  A confirmation of an event that an earlier invocation has already  *)
(* confirmed adds no record to the table.  It adds an IDENTITY item and    *)
(* the three records of the group under a new id, so this fails.           *)
(***************************************************************************)
C3_ReconfirmationAddsNothing ==
    \A p \in Confirmations :
        inv[p].redelivery
            => \A k \in 1..Len(inv[p].calls) : NewRecords(inv[p].calls[k]) = 0

(***************************************************************************)
(* C4.  In every state, for every (tenant, user) pair the PROFILE, the     *)
(* SETTINGS and the membership item exist together or not at all; so a     *)
(* membership never exists without its profile, whatever failed and        *)
(* however the invocations interleave.                                     *)
(***************************************************************************)
C4_GroupIsAllOrNothing ==
    \A t \in KnownTenants, u \in KnownUsers :
        LET profile == \E i \in store : IsProfile(i, t, u)
            settings == \E i \in store : IsSettings(i, t, u)
            membership == \E i \in store : IsMembership(i, t, u)
        IN  /\ membership => profile
            /\ profile <=> settings
            /\ settings <=> membership

\* a membership exists while another invocation has failed in its transaction
\* after its own IDENTITY item was written
C4_Witness ==
    /\ \E i \in store, t \in KnownTenants, u \in KnownUsers : IsMembership(i, t, u)
    /\ \E p \in Confirmations :
          /\ inv[p].pc = "raised"
          /\ Len(inv[p].calls) = 2
          /\ inv[p].calls[1].code = OK
          /\ inv[p].calls[2].code = TransactionCanceledException

(***************************************************************************)
(* C5.  A cancelled transaction whose reasons hold one that is no          *)
(* predicate failure makes the confirmation fail: the handler raises at    *)
(* that call and makes no later call.  When another item of the same       *)
(* cancellation failed its predicate the handler only logs a warning       *)
(* (lines 335-339) and goes on, so this fails.                             *)
(***************************************************************************)
C5_NonPredicateAbortIsFatal ==
    \A p \in Confirmations :
        \A k \in 1..Len(inv[p].calls) :
            HasNonPredicateReason(inv[p].calls[k])
                => inv[p].pc = "raised" /\ k = Len(inv[p].calls)

(***************************************************************************)
(* C6.  A predicate failure is never surfaced: after the put of the        *)
(* IDENTITY item was rejected by its condition the handler stands before   *)
(* the transaction, after a transaction cancelled for predicate reasons    *)
(* alone it stands before the attribute update, it never raises at such a  *)
(* call, and once the update has succeeded it has returned the event.      *)
(***************************************************************************)
C6_PredicateFailuresNotSurfaced ==
    \A p \in Confirmations :
        LET r == inv[p]
            n == Len(r.calls)
        IN  \A k \in 1..n :
                PredicateOnly(r.calls[k]) =>
                    /\ ~(r.pc = "raised" /\ k = n)
                    /\ (k = n /\ r.calls[k].op = "put_item")
                           => r.pc = "transact"
                    /\ (k = n /\ r.calls[k].op = "transact_write_items")
                           => r.pc = "update_attributes"
                    /\ (k < n /\ r.calls[n].code = OK
                              /\ r.calls[n].op = "admin_update_user_attributes")
                           => r.pc = "returned" /\ r.result = {r.event}

\* an invocation that met both predicate failures and returned the event
C6_Witness ==
    \E p \in Confirmations :
        /\ inv[p].pc = "returned"
        /\ Len(inv[p].calls) = 3
        /\ inv[p].calls[1].code = ConditionalCheckFailedException
        /\ PredicateOnly(inv[p].calls[2])

(***************************************************************************)
(* C7.  A failure of the put, of the transaction or of the attribute       *)
(* update that is neither a rejected condition of the put nor a            *)
(* cancellation in which an item failed its condition leaves the handler   *)
(* as an error: it is the last call of the invocation, the handler has     *)
(* raised it and has not returned the event.                               *)
(***************************************************************************)
AbortedByCondition(c) ==
    \/ c.op = "put_item" /\ c.code = ConditionalCheckFailedException
    \/ /\ c.op = "transact_write_items"
       /\ c.code = TransactionCanceledException
       /\ \E i \in 1..Len(c.reasons) : c.reasons[i] = ConditionalCheckFailed

C8_MissingSubIsFatal ==
    \A p \in Confirmations :
        (inv[p].event.triggerSource = ConfirmSignUp /\ ~Truthy(SubOf(inv[p])))
            => /\ inv[p].pc = "raised"
               /\ inv[p].error = "Missing Cognito 'sub'"
               /\ inv[p].calls = <<>>
               /\ inv[p].result = {}

\* both shapes have been delivered: sub missing and sub empty
C8_Witness ==
    \E p, q \in Confirmations :
        /\ inv[p].event = EvNoSub /\ inv[p].pc = "raised"
        /\ inv[q].event = EvEmptySub /\ inv[q].pc = "raised"

(***************************************************************************)
(* C9.  An event whose triggerSource is not PostConfirmation_ConfirmSignUp *)
(* is returned as it came: no tenant is determined, no user id drawn, and  *)
(* no call is made to the table or to the user pool.                       *)
(***************************************************************************)
C9_OtherTriggersPassThrough ==
    \A p \in Confirmations :
        inv[p].event.triggerSource # ConfirmSignUp
            => /\ inv[p].pc = "returned"
               /\ inv[p].result = {inv[p].event}
               /\ inv[p].tenant_id = None
               /\ inv[p].user_id = None
               /\ inv[p].calls = <<>>

\* a forgot-password confirmation has been delivered while the table holds
\* records: it touched none of them
C9_Witness ==
    /\ store # {}
    /\ \E p \in Confirmations : inv[p].event = EvForgot /\ inv[p].pc = "returned"

(***************************************************************************)
(* C10.  A confirmation for a subject without an IDENTITY item, whose      *)
(* email an earlier confirmation has already given a user id, takes that   *)
(* user id.  The handler never looks an email up (and stores none), so     *)
(* this fails.                                                             *)
(***************************************************************************)
C10_EmailResolvesToExistingUser ==
    \A p \in Confirmations :
        (/\ inv[p].user_id # None
         /\ ~inv[p].linked_at_start
         /\ inv[p].email_owners # {})
        => inv[p].user_id \in inv[p].email_owners


(***************************************************************************)
(* Linking a further identity to an existing user.  A user confirmed       *)
(* through Google already has the PROFILE / SETTINGS / membership group;   *)
(* the same person then confirms a native account (subject c-1) whose      *)
(* custom:user_id attribute was set from outside to the id of that user.   *)
(***************************************************************************)
EvLink(user_id) ==
    Event(ConfirmSignUp, <<"alice">>,
          ("sub" :> <<"c-1">>) @@ ("email" :> AliceEmail)
              @@ ("custom:user_id" :> user_id),
          EmptyDict)

\* the users that hold a PROFILE record
ProfiledUsers(st) ==
    {i.userId : i \in {j \in st : j.SK = <<"PROFILE">>}}

\* the first confirmation, and the link events for the users it has created
LinkEvents ==
    {EvAliceGoogle} \cup {EvLink(u) : u \in ProfiledUsers(store)}

InvokeLink(p) ==
    Deliver(p, LinkEvents, MaxDeliveries)

NextLink ==
    \E p \in Procs :
        \/ InvokeLink(p)
        \/ PutIdentity(p)
        \/ Transact(p)
        \/ UpdateAttributes(p)

SpecLink == Init /\ [][NextLink]_vars

(***************************************************************************)
(* C11.  A confirmation whose event carries a custom:user_id, delivered    *)
(* when that user already has a PROFILE in the determined tenant, works    *)
(* under that very user id: its IDENTITY item goes to the partition of     *)
(* that user and no record is written under another id.  The handler never *)
(* reads the attribute and draws a new id (line 183), so this fails.       *)
(***************************************************************************)
C11_SuppliedUserIdIsKept ==
    \A p \in Confirmations :
        LET ua == inv[p].event.request.userAttributes
        IN  (/\ "custom:user_id" \in DOMAIN ua
             /\ inv[p].user_id # None
             /\ \E i \in store :
                    IsProfile(i, inv[p].tenant_id, ua["custom:user_id"]))
            => inv[p].user_id = ua["custom:user_id"]



(***************************************************************************)
(* determine_tenant_id on its own: every configuration of the five         *)
(* settings over the values below, every event built from the attributes   *)
(* and the client metadata the function reads.                             *)
(***************************************************************************)
OtherOrg == <<"other", ".", "org">>

TenantConfigs ==
    [TENANT_STRATEGY : {"domain", "invitation", "personal", "strict"},
     ALLOW_PERSONAL_TENANTS : BOOLEAN,
     DOMAIN_TENANT_MAP : {EmptyDict, CoExample :> TenantCo},
     ALLOWED_DOMAINS : {{}, {CoExample}, {OtherOrg}},
     REQUIRE_TENANT : BOOLEAN]

\* the dicts that hold key k with one of the values vs, or do not hold it
Opt(k, vs) == {EmptyDict} \cup {k :> v : v \in vs}

TenantX == <<"tenant-x">>
PersonalX == <<"personal-", "x">>
TenantInv == <<"tenant-inv">>

\* addresses: mapped domain, the same in capitals, a public mail provider,
\* an unmapped organisation, an empty domain, no "@" at all
Emails ==
    {AliceEmail, <<"a", "@", "CO", ".", "Example">>, BobEmail,
     <<"d", "@", "other", ".", "org">>, <<"e", "@">>, <<"nomail">>}

TenantEvents ==
    {Event(ConfirmSignUp, userName,
           ("sub" :> <<"s-9">>) @@ tenant @@ email,
           client @@ (IF code @@ invited = EmptyDict THEN EmptyDict
                      ELSE "clientMetadata" :> (code @@ invited))) :
        userName \in {<<"dave">>, <<"erin">>},
        tenant \in Opt("custom:tenant_id", {TenantX, PersonalX, <<>>}),
        email \in Opt("email", Emails),
        client \in Opt("clientId", {<<"client-1">>}),
        code \in Opt("invitation_code",
                     {<<"tenant-code", ":", "k1">>, <<"k1">>}),
        invited \in Opt("invitation_tenant_id", {TenantInv})}

InitTenant ==
    /\ config \in TenantConfigs
    /\ store = {}
    /\ cognito = [u \in UserNames |-> [user_id |-> None, tenant_id |-> None]]
    /\ inv = [p \in Procs |-> Idle]
    /\ delivered = 0
    /\ returns = {}
    /\ resolved = {}
    /\ tokgen = TokIdle
    /\ issued = {}

\* one call of the function
Resolve ==
    /\ resolved = {}
    /\ \E event \in TenantEvents :
          resolved' = {[event |-> event,
                        result |-> determine_tenant_id(config, event)]}
    /\ UNCHANGED <<config, store, cognito, inv, delivered, returns,
                   tokgen, issued>>

SpecTenant == InitTenant /\ [][Resolve]_vars

\* what a call read
AttrsOf(e) == e.request.userAttributes
MetadataOf(e) == Get(e.callerContext, "clientMetadata", EmptyDict)
EmailOf(e) == Get(AttrsOf(e), "email", <<>>)
HasExplicitTenant(e) == "custom:tenant_id" \in DOMAIN AttrsOf(e)
HasInvitationTenant(e) == "invitation_tenant_id" \in DOMAIN MetadataOf(e)

(***************************************************************************)
(* C12.  When the userAttributes hold custom:tenant_id, the function       *)
(* returns exactly that value, whatever the invitation metadata, the       *)
(* client, the email and the configuration are.                            *)
(***************************************************************************)
C12_ExplicitTenantWins ==
    \A r \in resolved :
        HasExplicitTenant(r.event)
            => r.result = Returned(AttrsOf(r.event)["custom:tenant_id"])

\* an explicit tenant beside an invitation tenant and a mapped email domain
C12_Witness ==
    \E r \in resolved :
        /\ HasExplicitTenant(r.event)
        /\ HasInvitationTenant(r.event)
        /\ EmailOf(r.event) = AliceEmail
        /\ CoExample \in DOMAIN config.DOMAIN_TENANT_MAP
        /\ r.result = Returned(TenantX)



\* strategies 1 to 3 gave nothing: no explicit tenant, no invitation tenant,
\* no invitation code that is cut (the client map is empty)
NoEarlierMatch(cfg, e) ==
    /\ ~HasExplicitTenant(e)
    /\ ~Truthy(Get(MetadataOf(e), "invitation_tenant_id", None))
    /\ ~(/\ Truthy(Get(MetadataOf(e), "invitation_code", None))
         /\ cfg.TENANT_STRATEGY = "invitation"
         /\ Contains(Get(MetadataOf(e), "invitation_code", None), ":"))

\* the email-domain strategy is tried: the strategy setting selects it and
\* the email has a domain part
TriesDomain(cfg, e) ==
    /\ NoEarlierMatch(cfg, e)
    /\ cfg.TENANT_STRATEGY \in {"domain", "strict"}
    /\ Contains(EmailOf(e), "@")

\* the domain of the address, in lower case
DomainOf(e) == Lower(Split(EmailOf(e), "@")[2])

\* the outcome of the steps after the email-domain strategy
IsLaterOutcome(result) ==
    /\ ~result.raised
    /\ \/ StartsWith(result.value, <<"personal-">>)
       \/ result.value = <<"unassigned">>

NotAllowed == Raised("Email domain is not allowed for registration")

(***************************************************************************)
(* C13.  When the allow-list is not empty and does not hold the domain of  *)
(* the email, the email-domain strategy yields no tenant: the call raises  *)
(* "not allowed" when a tenant is required, and otherwise ends with what   *)
(* the later steps give (a personal tenant or "unassigned"), also when the *)
(* map has an entry for the domain.  Stated for the configurations with a  *)
(* map, which leaves the first-label rule of line 114 (C14) out of it.     *)
(* Without REQUIRE_TENANT the code goes on to the map (line 108) and       *)
(* returns the mapped tenant of the domain it has just found not allowed,  *)
(* so this fails.                                                          *)
(***************************************************************************)
C13_AllowListBlocksDomainStrategy ==
    \A r \in resolved :
        (/\ TriesDomain(config, r.event)
         /\ DOMAIN config.DOMAIN_TENANT_MAP # {}
         /\ config.ALLOWED_DOMAINS # {}
         /\ DomainOf(r.event) \notin config.ALLOWED_DOMAINS)
        => IF config.REQUIRE_TENANT
           THEN r.result = NotAllowed
           ELSE IsLaterOutcome(r.result)



\* the allow-list turns the domain away and a tenant is required
Rejected(cfg, e) ==
    /\ cfg.ALLOWED_DOMAINS # {}
    /\ DomainOf(e) \notin cfg.ALLOWED_DOMAINS
    /\ cfg.REQUIRE_TENANT

TenantRequired == Raised("Unable to determine tenant ID for user registration")

\* the call ended in a step after the email-domain strategy
IsLaterStep(result) == IsLaterOutcome(result) \/ result = TenantRequired

\* the first label of the domain names a tenant: it is not empty and is not
\* one of the public mail providers
LabelOf(e) == Split(DomainOf(e), ".")[1]
HasOwnLabel(e) ==
    /\ DomainOf(e) # <<>>
    /\ LabelOf(e) # <<>>
    /\ LabelOf(e) \notin {<<"gmail">>, <<"hotmail">>, <<"yahoo">>,
                          <<"outlook">>, <<"icloud">>}

(***************************************************************************)
(* C14, as claimed.  When the email-domain strategy is tried and the       *)
(* domain is not a key of the map (the empty map included), no tenant is   *)
(* derived from the domain text: the call ends in the personal-tenant      *)
(* step or in the final unassigned / fail step.  With an empty map the     *)
(* code returns the first label of the domain (lines 113-120), so this     *)
(* fails.                                                                  *)
(***************************************************************************)
C14_DomainTenantOnlyFromMap ==
    \A r \in resolved :
        (/\ TriesDomain(config, r.event)
         /\ DomainOf(r.event) \notin DOMAIN config.DOMAIN_TENANT_MAP
         /\ ~Rejected(config, r.event))
        => IsLaterStep(r.result)

(***************************************************************************)
(* C14, amended.  When the email-domain strategy is tried, the domain is   *)
(* not a key of the map and the allow-list does not turn it away: with an  *)
(* empty map and a first label that is neither empty nor a public mail     *)
(* provider, the first label of the lower-cased domain is the tenant id;   *)
(* in every other case the call ends in the personal-tenant step or in the *)
(* final unassigned / fail step.                                           *)
(***************************************************************************)
C14_DomainTenantFromMapOrFirstLabel ==
    \A r \in resolved :
        (/\ TriesDomain(config, r.event)
         /\ DomainOf(r.event) \notin DOMAIN config.DOMAIN_TENANT_MAP
         /\ ~Rejected(config, r.event))
        => IF DOMAIN config.DOMAIN_TENANT_MAP = {} /\ HasOwnLabel(r.event)
           THEN r.result = Returned(LabelOf(r.event))
           ELSE IsLaterStep(r.result)

\* a@CO.Example under an empty map resolves to the tenant "co"
C14_Witness ==
    \E r \in resolved :
        /\ TriesDomain(config, r.event)
        /\ DOMAIN config.DOMAIN_TENANT_MAP = {}
        /\ EmailOf(r.event) = <<"a", "@", "CO", ".", "Example">>
        /\ r.result = Returned(<<"co">>)



\* the call returned a personal tenant made by the function itself: an id
\* with the reserved prefix that no explicit attribute or invitation gave
PersonalReturned(r) ==
    /\ NoEarlierMatch(config, r.event)
    /\ ~r.result.raised
    /\ StartsWith(r.result.value, <<"personal-">>)

\* the reserved prefix and the digest of the email, or of the username when
\* there is no email
PersonalIdOf(e) ==
    <<"personal-">>
        \o md5_hex8(IF EmailOf(e) # <<>> THEN EmailOf(e) ELSE e.userName)

(***************************************************************************)
(* C15, as claimed.  A personal tenant id is returned only when            *)
(* ALLOW_PERSONAL_TENANTS is set, and it is the reserved prefix followed   *)
(* by the digest of the email (of the username when there is no email).    *)
(* Line 123 also makes one when TENANT_STRATEGY is 'personal' and the      *)
(* policy is off, so this fails.                                           *)
(***************************************************************************)
C15_PersonalOnlyWhenAllowed ==
    \A r \in resolved :
        PersonalReturned(r)
            => /\ config.ALLOW_PERSONAL_TENANTS
               /\ r.result.value = PersonalIdOf(r.event)

(***************************************************************************)
(* C15, amended.  A personal tenant id is returned only when               *)
(* ALLOW_PERSONAL_TENANTS is set or TENANT_STRATEGY is 'personal', and it  *)
(* is the reserved prefix followed by the digest of the email (of the      *)
(* username when there is no email): it depends on nothing else, so the    *)
(* same email gives the same id on every call.                             *)
(***************************************************************************)
C15_PersonalWhenAllowedOrStrategy ==
    \A r \in resolved :
        PersonalReturned(r)
            => /\ config.ALLOW_PERSONAL_TENANTS
                  \/ config.TENANT_STRATEGY = "personal"
               /\ r.result.value = PersonalIdOf(r.event)

\* a personal tenant for b@gmail.com made under strategy 'personal' with the
\* policy off
C15_Witness ==
    \E r \in resolved :
        /\ PersonalReturned(r)
        /\ ~config.ALLOW_PERSONAL_TENANTS
        /\ EmailOf(r.event) = BobEmail
        /\ r.event.userName = <<"erin">>
        /\ r.result.value = <<"personal-">> \o md5_hex8(BobEmail)



(***************************************************************************)
(* One confirmation against an empty table, under every configuration:     *)
(* the handler from the delivery of the event to its return or raise.      *)
(***************************************************************************)
SingleEvents ==
    {e \in TenantEvents :
        /\ e.userName = <<"dave">>
        /\ "clientId" \notin DOMAIN e.callerContext
        /\ EmailOf(e) \in {<<>>, AliceEmail, BobEmail}
        /\ Get(MetadataOf(e), "invitation_code", None) # <<"k1">>}
    \cup {EvAliceGoogle}

InitSingle ==
    /\ config \in TenantConfigs
    /\ store = {}
    /\ cognito = [u \in {e.userName : e \in SingleEvents} |->
                     [user_id |-> None, tenant_id |-> None]]
    /\ inv = [p \in Procs |-> Idle]
    /\ delivered = 0
    /\ returns = {}
    /\ resolved = {}
    /\ tokgen = TokIdle
    /\ issued = {}

InvokeSingle(p) ==
    Deliver(p, SingleEvents, 1)

NextSingle ==
    \E p \in Procs :
        \/ InvokeSingle(p)
        \/ PutIdentity(p)
        \/ Transact(p)
        \/ UpdateAttributes(p)

SpecSingle == InitSingle /\ [][NextSingle]_vars

\* no strategy gives a tenant: nothing explicit, no invitation, no tenant
\* from the email domain, and personal tenants are not made
NoStrategyMatches(cfg, e) ==
    /\ NoEarlierMatch(cfg, e)
    /\ TriesDomain(cfg, e)
           => /\ DomainOf(e) \notin DOMAIN cfg.DOMAIN_TENANT_MAP
              /\ ~Rejected(cfg, e)
              /\ ~(DOMAIN cfg.DOMAIN_TENANT_MAP = {} /\ HasOwnLabel(e))
    /\ ~cfg.ALLOW_PERSONAL_TENANTS
    /\ cfg.TENANT_STRATEGY # "personal"

\* no attribute was written back to the user pool
NothingWrittenBack ==
    \A u \in DOMAIN cognito :
        cognito[u] = [user_id |-> None, tenant_id |-> None]

(***************************************************************************)
(* C16.  When no strategy matches: with REQUIRE_TENANT the confirmation    *)
(* raises the "tenant required" error having made no call, the table and   *)
(* the user pool left as they were; without it the tenant of the           *)
(* confirmation is "unassigned".                                           *)
(***************************************************************************)
C16_NoMatchFailsOrUnassigned ==
    \A p \in Confirmations :
        NoStrategyMatches(config, inv[p].event)
            => IF config.REQUIRE_TENANT
               THEN /\ inv[p].pc = "raised"
                    /\ <<inv[p].error>> = TenantRequired.value
                    /\ inv[p].calls = NoCalls
                    /\ store = {}
                    /\ NothingWrittenBack
               ELSE inv[p].tenant_id = <<"unassigned">>

\* a required tenant that no strategy gives: the handler has raised
C16_Witness ==
    \E p \in Confirmations :
        /\ NoStrategyMatches(config, inv[p].event)
        /\ config.REQUIRE_TENANT
        /\ EmailOf(inv[p].event) = BobEmail
        /\ inv[p].pc = "raised"



\* the tenant came from the explicit attribute, an invitation, the client map
\* or the email domain
OrganizationalSource(cfg, e) ==
    \/ ~NoEarlierMatch(cfg, e)
    \/ /\ TriesDomain(cfg, e)
       /\ ~Rejected(cfg, e)
       /\ \/ DomainOf(e) \in DOMAIN cfg.DOMAIN_TENANT_MAP
          \/ DOMAIN cfg.DOMAIN_TENANT_MAP = {} /\ HasOwnLabel(e)

\* the membership records an invocation's transaction is about
MembershipsOf(p) ==
    {i \in store : IsMembership(i, inv[p].tenant_id, inv[p].user_id)}

(***************************************************************************)
(* C17, as claimed.  The role of the membership record is "member" for     *)
(* every tenant id that came from the explicit attribute, an invitation,   *)
(* the client map or the email domain, and "admin" for a personal tenant   *)
(* made by the fallback.  The code looks at the prefix of the id alone     *)
(* (line 299), so an explicit or invited tenant id that begins with        *)
(* "personal-" gets "admin": this fails.                                   *)
(***************************************************************************)
C17_MemberForOrganizationalSources ==
    \A p \in Confirmations : \A i \in MembershipsOf(p) :
        IF OrganizationalSource(config, inv[p].event)
        THEN i.role = <<"member">>
        ELSE StartsWith(inv[p].tenant_id, <<"personal-">>)
                 => i.role = <<"admin">>

(***************************************************************************)
(* C17, amended.  The role of the membership record is "admin" exactly     *)
(* when the tenant id begins with the reserved prefix "personal-",         *)
(* whichever strategy gave the id, and "member" for every other tenant id. *)
(***************************************************************************)
C17_RoleFollowsThePrefix ==
    \A p \in Confirmations : \A i \in MembershipsOf(p) :
        i.role = IF StartsWith(inv[p].tenant_id, <<"personal-">>)
                 THEN <<"admin">> ELSE <<"member">>

\* an administrator of a personal tenant made from b@gmail.com
C17_Witness ==
    \E p \in Confirmations : \E i \in MembershipsOf(p) :
        /\ ~OrganizationalSource(config, inv[p].event)
        /\ inv[p].tenant_id = <<"personal-">> \o md5_hex8(BobEmail)
        /\ i.role = <<"admin">>



\* The confirmation of the Google user a@co.example has returned, under a
\* configuration that maps co.example to tenant-co and does not turn the
\* domain away; the table was empty when the event arrived.
FirstMappedConfirmation(p) ==
    /\ inv[p].event = EvAliceGoogle
    /\ inv[p].pc = "returned"
    /\ config.TENANT_STRATEGY \in {"domain", "strict"}
    /\ CoExample \in DOMAIN config.DOMAIN_TENANT_MAP
    /\ config.ALLOWED_DOMAINS \in {{}, {CoExample}}

\* TENANT#tenant-co#USER#<u>
PartitionCo(u) == <<"TENANT", "#", "tenant-co", "#", "USER", "#">> \o u

\* one PROFILE, one SETTINGS, one membership with role "member" and one
\* identity link named after the provider, for tenant-co and user u, and
\* nothing else
FourRecords(u) ==
    /\ Cardinality(store) = 4
    /\ \A i \in store : i.tenantId = <<"tenant-co">>
    /\ \E i \in store : i.SK = <<"PROFILE">> /\ i.userId = u
    /\ \E i \in store : i.SK = <<"SETTINGS">>
    /\ \E i \in store :
           /\ i.SK = <<"IDENTITY", "#", "GOOGLE">>
           /\ i.provider = <<"GOOGLE">>
           /\ i.providerSub = <<"g-1">>
           /\ i.GSI2SK = PartitionCo(u)
    /\ \E i \in store : "role" \in DOMAIN i /\ i.role = <<"member">>

(***************************************************************************)
(* C18, as claimed.  After the first confirmation of a Google user whose   *)
(* email domain is mapped to tenant-co, against an empty table, the table  *)
(* holds one PROFILE, one SETTINGS, one membership with role "member" and  *)
(* one identity link IDENTITY#GOOGLE for (tenant-co, U), U the new user    *)
(* id, and all four have the partition key TENANT#tenant-co#USER#U.  The   *)
(* membership is keyed USER#U / TENANT#tenant-co (lines 289-290), so this  *)
(* fails.                                                                  *)
(***************************************************************************)
C18_FourRecordsInOnePartition ==
    \A p \in Confirmations :
        FirstMappedConfirmation(p)
            => /\ inv[p].user_id # None
               /\ FourRecords(inv[p].user_id)
               /\ \A i \in store : i.PK = PartitionCo(inv[p].user_id)

(***************************************************************************)
(* C18, amended.  The same four records; PROFILE, SETTINGS and the         *)
(* identity link have the partition key TENANT#tenant-co#USER#U, the       *)
(* membership has the partition key USER#U and the sort key                *)
(* TENANT#tenant-co.                                                       *)
(***************************************************************************)
C18_FourRecordsInTwoPartitions ==
    \A p \in Confirmations :
        FirstMappedConfirmation(p)
            => /\ inv[p].user_id # None
               /\ FourRecords(inv[p].user_id)
               /\ \A i \in store :
                      IF "role" \in DOMAIN i
                      THEN /\ i.PK = <<"USER", "#">> \o inv[p].user_id
                           /\ i.SK = <<"TENANT", "#", "tenant-co">>
                      ELSE i.PK = PartitionCo(inv[p].user_id)

\* the confirmation has returned and its four records are in the table
C18_Witness ==
    \E p \in Confirmations :
        /\ FirstMappedConfirmation(p)
        /\ Cardinality(store) = 4
        /\ cognito[<<"google_g-1">>].tenant_id = <<"tenant-co">>



\* the call ended in success or was turned away by predicates alone
Committed(c) == c.code = OK \/ PredicateOnly(c)

\* the identity link and the group of an invocation are in the table
RecordsPersisted(r) ==
    /\ \E i \in IdentityLinks(store, SubOf(r)) :
           i.PK = TenantUserKey(r.tenant_id, r.user_id)
    /\ \E i \in store : IsProfile(i, r.tenant_id, r.user_id)
    /\ \E i \in store : IsSettings(i, r.tenant_id, r.user_id)
    /\ \E i \in store : IsMembership(i, r.tenant_id, r.user_id)

(***************************************************************************)
(* C19.  The attribute update is the third call of an invocation, made     *)
(* after the put of the identity link and the transaction each ended in    *)
(* success or in a rejection by predicates alone; the records of the       *)
(* (tenant id, user id) it sets are in the table.  After a cancellation    *)
(* that mixes a predicate failure with another reason the handler still    *)
(* makes the update (C5), so this fails.                                   *)
(***************************************************************************)
C19_WriteBackIsPostCommit ==
    \A p \in Confirmations :
        \A k \in 1..Len(inv[p].calls) :
            inv[p].calls[k].op = "admin_update_user_attributes"
                => /\ k = 3
                   /\ inv[p].calls[1].op = "put_item"
                   /\ Committed(inv[p].calls[1])
                   /\ inv[p].calls[2].op = "transact_write_items"
                   /\ Committed(inv[p].calls[2])
                   /\ RecordsPersisted(inv[p])



(***************************************************************************)
(* Token issuance.  The table is any set of the records below: what        *)
(* confirmations wrote for user uuid-1, what was changed since outside of  *)
(* the handlers (a suspended membership, an account tier, a group) and     *)
(* what was removed.                                                       *)
(***************************************************************************)
TenantA == <<"tenant-a">>
TenantB == <<"tenant-b">>

TokenItems ==
    {tenant_membership_item(TenantA, UuidStr(1)),
     [tenant_membership_item(TenantB, UuidStr(1)) EXCEPT
         !.status = <<"SUSPENDED">>],
     identity_item(TenantA, UuidStr(1), <<"COGNITO">>, EmptyDict,
                   <<"s-1">>, <<"alice">>),
     ("accountTier" :> <<"pro">>) @@ profile_item(TenantA, UuidStr(1)),
     settings_item(TenantA, UuidStr(1)),
     [PK |-> TenantUserKey(TenantA, UuidStr(1)),
      SK |-> <<"GROUP", "#", "devs">>,
      role |-> <<"admins">>]}

\* the attributes of the user: with the ids written back (the tenant still
\* held or not), without them, for an unknown subject, without a subject
TokenAttributes ==
    {("sub" :> <<"s-1">>) @@ ("custom:user_id" :> UuidStr(1))
         @@ ("custom:tenant_id" :> t) : t \in {TenantA, TenantB}}
    \cup {"sub" :> <<"s-1">>, "sub" :> <<"s-2">>, EmptyDict}

TokenEvents ==
    {TokenEvent(trigger, <<"alice">>, attrs, response) :
        trigger \in {"TokenGeneration_Authentication",
                     "TokenGeneration_HostedAuth",
                     "TokenGeneration_RefreshTokens"},
        attrs \in TokenAttributes,
        response \in {"absent", "empty", "null", "details"}}

InitToken ==
    /\ config = CfgDefault
    /\ store \in SUBSET TokenItems
    /\ cognito = [u \in UserNames |-> [user_id |-> None, tenant_id |-> None]]
    /\ inv = [p \in Procs |-> Idle]
    /\ delivered = 0
    /\ returns = {}
    /\ resolved = {}
    /\ tokgen = TokIdle
    /\ issued = {}

confirmation ==
    <<config, store, cognito, inv, delivered, returns, resolved, issued>>

\* Cognito calls the handler, which runs up to its first store call
TokenInvoke ==
    /\ tokgen.pc \in FreePcs
    /\ \E event \in TokenEvents : tokgen' = TokEntry(event)
    /\ UNCHANGED confirmation

\* lines 57-63
GetMembership ==
    /\ tokgen.pc = "get_membership"
    /\ \E fault \in CallFaults :
          LET res == get_item(store, UserKey(tokgen.user_id),
                              TenantKey(tokgen.tenant_id), fault)
          IN  tokgen' = AfterMembership(Called(tokgen, "get_item", res), res)
    /\ UNCHANGED confirmation

\* line 69
GetUserTenants ==
    /\ tokgen.pc = "get_user_tenants"
    /\ \E fault \in CallFaults :
          LET res == query(store, UserKey(tokgen.user_id),
                           <<"TENANT", "#">>, fault)
          IN  tokgen' = AfterUserTenants(Called(tokgen, "query", res), res)
    /\ UNCHANGED confirmation

\* lines 88 and 134
CountUserTenants ==
    /\ tokgen.pc = "count_user_tenants"
    /\ \E fault \in CallFaults :
          LET res == query(store, UserKey(tokgen.user_id),
                           <<"TENANT", "#">>, fault)
          IN  tokgen' = AfterCount(Called(tokgen, "query", res), res)
    /\ UNCHANGED confirmation

\* lines 224-229
GetProfile ==
    /\ tokgen.pc = "get_profile"
    /\ \E fault \in CallFaults :
          LET res == get_item(store,
                              TenantUserKey(tokgen.tenant_id, tokgen.user_id),
                              <<"PROFILE">>, fault)
          IN  tokgen' = AfterProfile(Called(tokgen, "get_item", res), res)
    /\ UNCHANGED confirmation

\* line 238
GetUserGroups ==
    /\ tokgen.pc = "get_user_groups"
    /\ \E fault \in CallFaults :
          LET res == query(store,
                           TenantUserKey(tokgen.tenant_id, tokgen.user_id),
                           <<"GROUP", "#">>, fault)
          IN  tokgen' = AfterGroups(Called(tokgen, "query", res), res)
    /\ UNCHANGED confirmation

\* lines 243-248
GetSettings ==
    /\ tokgen.pc = "get_settings"
    /\ \E fault \in CallFaults :
          LET res == get_item(store,
                              TenantUserKey(tokgen.tenant_id, tokgen.user_id),
                              <<"SETTINGS">>, fault)
          IN  tokgen' = AfterSettings(Called(tokgen, "get_item", res), res)
    /\ UNCHANGED confirmation

\* lines 108-114
QuerySub ==
    /\ tokgen.pc = "query_sub"
    /\ \E fault \in CallFaults :
          LET sub == tokgen.event.request.userAttributes["sub"]
              res == query_GSI2(store, IdentKey(sub), fault)
          IN  tokgen' = AfterQuerySub(Called(tokgen, "query", res), res)
    /\ UNCHANGED confirmation

NextToken ==
    \/ TokenInvoke
    \/ GetMembership
    \/ GetUserTenants
    \/ CountUserTenants
    \/ GetProfile
    \/ GetUserGroups
    \/ GetSettings
    \/ QuerySub

SpecToken == InitToken /\ [][NextToken]_vars



(***************************************************************************)
(* C20.  Token issuance never fails: whatever the event and whatever the   *)
(* outcome of each store call (item found, item missing, store error), no  *)
(* exception leaves the pre-token-generation handler, and when it is done  *)
(* it has returned the event.                                              *)
(***************************************************************************)
C20_TokenIssuanceNeverFails ==
    /\ tokgen.pc # "raised"
    /\ tokgen.pc = "returned" => tokgen.result = {tokgen.event}
    /\ tokgen.pc \notin {"idle", "returned"} => tokgen.result = {}

\* the handler found the membership, a later store call failed, and it has
\* returned the event without the account tier
C20_Witness ==
    /\ tokgen.pc = "returned"
    /\ tokgen.result = {tokgen.event}
    /\ \E k \in 1..Len(tokgen.calls) : tokgen.calls[k].code = OtherError
    /\ tokgen.membership # {}
    /\ tokgen.flow = "attributes"
    /\ "account_tier" \notin DOMAIN tokgen.claims



\* the membership records the table holds for a user
MembershipsIn(st, user_id) ==
    {i \in st : i.PK = <<"USER", "#">> \o user_id
                /\ StartsWith(i.SK, <<"TENANT", "#">>)}

\* the handler went the fast path, its membership lookup was answered and
\* found nothing, and the enumeration of the other tenants was answered too
StaleTenant ==
    /\ tokgen.flow = "attributes"
    /\ Len(tokgen.calls) >= 2
    /\ tokgen.calls[1].code = OK
    /\ tokgen.calls[2].code = OK
    /\ ~\E i \in MembershipsIn(store, tokgen.user_id) :
           i.tenantId = tokgen.event.request.userAttributes["custom:tenant_id"]

(***************************************************************************)
(* C21.  On the fast path, when the table holds no membership for the      *)
(* tenant of the attributes, the claims carry the tenant of the user's     *)
(* first membership in sort-key order, or no tenant_id at all when the     *)
(* user has none.  Lines 80-81 set the tenant_id claim whether or not a    *)
(* tenant was found, so with no membership left the stale tenant is        *)
(* emitted: this fails.                                                    *)
(***************************************************************************)
C21_StaleTenantNeverEmitted ==
    StaleTenant
        => LET others == MembershipsIn(store, tokgen.user_id)
           IN  IF others = {}
               THEN "tenant_id" \notin DOMAIN tokgen.claims
               ELSE /\ "tenant_id" \in DOMAIN tokgen.claims
                    /\ \E m \in others :
                           /\ \A n \in others : ~KeyLess(n.SK, m.SK)
                           /\ tokgen.claims["tenant_id"] = m.tenantId



\* the table holds an active membership of the user for the tenant
ActiveMember(st, user_id, tenant_id) ==
    \E i \in MembershipsIn(st, user_id) :
        /\ i.tenantId = tenant_id
        /\ i.status = <<"ACTIVE">>

(***************************************************************************)
(* C22.  Whenever the claims carry a tenant_id, on the fast path or on the *)
(* slow path, the table holds a membership of the user of the claims for   *)
(* that tenant, with status ACTIVE.  The handler never reads the status,   *)
(* sets the claim when the membership lookup failed (lines 96-100) and     *)
(* looks no membership up on the slow path, so this fails.                 *)
(***************************************************************************)
C22_EmittedTenantHasActiveMembership ==
    "tenant_id" \in DOMAIN tokgen.claims
        => /\ "user_id" \in DOMAIN tokgen.claims
           /\ ActiveMember(store, tokgen.claims["user_id"],
                           tokgen.claims["tenant_id"])



\* the subject of the token event, when it has one
TokenSub == Get(tokgen.event.request.userAttributes, "sub", None)

(***************************************************************************)
(* C23.  On the slow path, when the subject index holds no identity link   *)
(* for the subject of the event, the handler returns the event and the     *)
(* claims hold neither user_id nor tenant_id.                              *)
(***************************************************************************)
C23_UnknownSubjectGetsNoIdentityClaims ==
    (/\ tokgen.flow = "lookup"
     /\ IdentityLinks(store, TokenSub) = {})
    => /\ "user_id" \notin DOMAIN tokgen.claims
       /\ "tenant_id" \notin DOMAIN tokgen.claims
       /\ Len(tokgen.calls) <= 1
       /\ Len(tokgen.calls) = 1
              => tokgen.pc = "returned" /\ tokgen.result = {tokgen.event}

\* the index was queried, answered with no item, and the event was returned
C23_Witness ==
    /\ tokgen.flow = "lookup"
    /\ IdentityLinks(store, TokenSub) = {}
    /\ Len(tokgen.calls) = 1
    /\ tokgen.calls[1].code = OK
    /\ tokgen.pc = "returned"
    /\ tokgen.has_claims
    /\ tokgen.claims = EmptyDict



\* the number of store calls the handler makes before it starts the
\* enrichment: the membership read, the listing when no membership was found,
\* and the count on the fast path; the index query and the count on the slow
FirstEnrichmentCall ==
    IF tokgen.flow = "attributes" /\ tokgen.membership = {} THEN 4 ELSE 3

\* a profile, group or settings lookup of this invocation has failed
EnrichmentFailed ==
    /\ tokgen.flow \in {"attributes", "lookup"}
    /\ \E k \in FirstEnrichmentCall..Len(tokgen.calls) :
           tokgen.calls[k].code # OK

(***************************************************************************)
(* C24.  A failure of the profile, the settings or the group lookup during *)
(* the enrichment is swallowed: the claims still hold user_id and          *)
(* tenant_id as they were set before the enrichment, the handler goes on   *)
(* or returns, and what it returns is the event.                           *)
(***************************************************************************)
C24_EnrichmentFailureKeepsBaseClaims ==
    EnrichmentFailed
        => /\ "user_id" \in DOMAIN tokgen.claims
           /\ "tenant_id" \in DOMAIN tokgen.claims
           /\ tokgen.claims["user_id"] = tokgen.user_id
           /\ tokgen.claims["tenant_id"] = tokgen.tenant_id
           /\ tokgen.pc \in {"get_settings", "returned"}
           /\ tokgen.pc = "returned" => tokgen.result = {tokgen.event}

\* the profile read failed after the base claims were set, and the handler
\* has returned the event
C24_Witness ==
    /\ EnrichmentFailed
    /\ tokgen.pc = "returned"
    /\ tokgen.result = {tokgen.event}
    /\ Len(tokgen.calls) = FirstEnrichmentCall
    /\ tokgen.claims["tenant_id"] = TenantA



\* the handler has resolved a user and returned
ResolvedAndReturned ==
    /\ tokgen.pc = "returned"
    /\ "user_id" \in DOMAIN tokgen.claims

\* the hint is among the claims
HasHint == "has_multiple_tenants" \in DOMAIN tokgen.claims

\* the resolved user has more than one membership record
SeveralMemberships ==
    Cardinality(MembershipsIn(store, tokgen.claims["user_id"])) > 1

\* count_user_tenants was called and its query succeeded
CountSucceeded ==
    /\ tokgen.flow \in {"attributes", "lookup"}
    /\ Len(tokgen.calls) >= FirstEnrichmentCall - 1
    /\ tokgen.calls[FirstEnrichmentCall - 1].code = OK

(***************************************************************************)
(* C25.  When the handler has returned with a resolved user, the claims    *)
(* hold has_multiple_tenants exactly when that user has more than one      *)
(* membership record.                                                      *)
(***************************************************************************)
C25_HintExactlyWhenSeveralMemberships ==
    ResolvedAndReturned => (HasHint <=> SeveralMemberships)

(***************************************************************************)
(* C25, amended.  The hint is never emitted for a user with zero or one    *)
(* membership; for a user with more than one it is emitted exactly when    *)
(* the count query was made and succeeded.                                 *)
(***************************************************************************)
C25_HintWhenCountedSeveral ==
    ResolvedAndReturned
        => (HasHint <=> (CountSucceeded /\ SeveralMemberships))

\* the slow path resolved a user with two memberships and emitted the hint
C25_Witness ==
    /\ ResolvedAndReturned
    /\ tokgen.flow = "lookup"
    /\ HasHint
    /\ tokgen.claims["tenant_count"] = Str(2)



(***************************************************************************)
(* Confirmation and token issuance together (SpecBoth): the token handler  *)
(* reads the table the confirmations write, and the attributes of a token  *)
(* event are those the user signed up with, overridden by the ids a        *)
(* confirmation has written back.                                          *)
(***************************************************************************)
\* a tenant id that holds the delimiter of the compound keys
TenantHash == <<"tenant-a", "#", "1">>

\* a sign-up into an explicitly named tenant
EvHash ==
    Event(ConfirmSignUp, <<"bob">>,
          ("sub" :> <<"s-2">>) @@ ("email" :> BobEmail)
              @@ ("custom:tenant_id" :> TenantHash),
          EmptyDict)

\* a sign-up whose attributes already hold a user id and a tenant id
EvPreset ==
    Event(ConfirmSignUp, <<"carol">>,
          ("sub" :> <<"s-3">>) @@ ("email" :> AliceEmail)
              @@ ("custom:user_id" :> <<"uuid", "pre">>)
              @@ ("custom:tenant_id" :> TenantCo),
          EmptyDict)

BothEvents == {EvAlice, EvHash, EvPreset}

InitBoth ==
    /\ config = CfgMapped
    /\ store = {}
    /\ cognito = [u \in {e.userName : e \in BothEvents} |->
                     [user_id |-> None, tenant_id |-> None]]
    /\ inv = [p \in Procs |-> Idle]
    /\ delivered = 0
    /\ returns = {}
    /\ resolved = {}
    /\ tokgen = TokIdle
    /\ issued = {}

InvokeBoth(p) ==
    Deliver(p, BothEvents, MaxDeliveries)

\* the attributes the user pool holds for the user of a confirmation event
PoolAttributes(event) ==
    LET written == cognito[event.userName]
    IN  IF written.user_id = None
        THEN event.request.userAttributes
        ELSE ("custom:user_id" :> written.user_id)
                 @@ ("custom:tenant_id" :> written.tenant_id)
                 @@ event.request.userAttributes

\* the user pool asks for the claims of a signed-up user
TokenInvokeBoth ==
    /\ tokgen.pc \in FreePcs
    /\ \E event \in BothEvents :
          tokgen' = TokEntry(TokenEvent("TokenGeneration_Authentication",
                                        event.userName,
                                        PoolAttributes(event), "details"))
    /\ UNCHANGED confirmation

NextBoth ==
    \/ \E p \in Procs :
          \/ InvokeBoth(p)
          \/ PutIdentity(p)
          \/ Transact(p)
          \/ UpdateAttributes(p)
    \/ TokenInvokeBoth
    \/ GetMembership
    \/ GetUserTenants
    \/ CountUserTenants
    \/ GetProfile
    \/ GetUserGroups
    \/ GetSettings
    \/ QuerySub

SpecBoth == InitBoth /\ [][NextBoth]_vars

\* the slow path has taken the ids out of an identity link
ParsedFromLink ==
    /\ tokgen.flow = "lookup"
    /\ "user_id" \in DOMAIN tokgen.claims

(***************************************************************************)
(* C26.  Round trip: the user_id and tenant_id the slow path emits are     *)
(* those of an identity link a confirmation wrote for the subject -- the   *)
(* tenant of its tenantId attribute and the user of its GSI3SK.            *)
(***************************************************************************)
C26_SlowPathRecoversWhatWasWritten ==
    ParsedFromLink
        => \E i \in IdentityLinks(store, TokenSub) :
               /\ i.tenantId = tokgen.claims["tenant_id"]
               /\ i.GSI3SK = UserKey(tokgen.claims["user_id"])



\* one step keeps every record, adds records under new primary keys only,
\* and adds none when it is a step of the token handler
StoreGrows ==
    /\ store \subseteq store'
    /\ \A i \in store' \ store : ~KeyExists(store, i.PK, i.SK)
    /\ tokgen' # tokgen => store' = store

(***************************************************************************)
(* C27.  The store only grows: whatever the interleaving of confirmation   *)
(* and token invocations, no step deletes or replaces a record (a write    *)
(* under a primary key the table holds is rejected), and no step of a      *)
(* token invocation writes.                                                *)
(***************************************************************************)
C27_StoreOnlyGrows == [][StoreGrows]_vars

\* a confirmation's put was rejected because another user's identity link
\* holds the key, that link is still there, and a token invocation has read
\* the table and returned
C27_Witness ==
    /\ \E p \in Procs :
          /\ Len(inv[p].calls) >= 1
          /\ inv[p].calls[1].code = ConditionalCheckFailedException
          /\ \E i \in store :
                /\ i.PK = TenantUserKey(inv[p].tenant_id, inv[p].user_id)
                /\ i.SK = IdentitySK(inv[p].provider)
                /\ i.username # inv[p].event.userName
    /\ tokgen.pc = "returned"
    /\ Len(tokgen.calls) >= 1



(***************************************************************************)
(* Redelivery (SpecRetry).  The user pool delivers one confirmation event  *)
(* again and again until an invocation has returned normally.  A handler   *)
(* raises to make the pool deliver again (lines 372-374).  Failures of the *)
(* table and of the user pool are transient: they can hit the calls made   *)
(* while at most RetryFaultyDeliveries deliveries have happened, and none  *)
(* after.  The Lambda runtime runs every started handler to its end and    *)
(* the pool keeps delivering, hence the weak fairness of every step.       *)
(***************************************************************************)
RetryFaultyDeliveries == 2

InitRetry ==
    /\ config \in Configs
    /\ store = {}
    /\ cognito = [u \in UserNames |-> [user_id |-> None, tenant_id |-> None]]
    /\ inv = [p \in Procs |-> Idle]
    /\ delivered = 0
    /\ returns = {}
    /\ resolved = {}
    /\ tokgen = TokIdle
    /\ issued = {}

\* lines 140-231: a delivery of the event (the first chooses it).  The pool
\* calls the trigger synchronously: it delivers again when the call before
\* has raised, and not after a normal return; the call goes to the first
\* handler instance, which is free again.
Redeliver(p) ==
    /\ \A q \in Procs : inv[q].pc \in {"idle", "raised"}
    /\ \A q \in Procs : p <= q
    /\ \E event \in Events, uuid \in UuidSpace(Cardinality(DrawnUuids)) :
          /\ \A q \in Procs : inv[q].pc # "idle" => inv[q].event = event
          /\ inv' = [inv EXCEPT ![p] = Entry(config, event, uuid) @@ Arrival(event)]
    /\ delivered' = IF delivered <= RetryFaultyDeliveries
                    THEN delivered + 1 ELSE delivered
    /\ UNCHANGED <<config, store, cognito, returns, aside>>

\* the failures have stopped
FailuresOver == delivered > RetryFaultyDeliveries

\* the last call of a handler met no failure of the service
LastCallSound(r) ==
    LET c == r.calls[Len(r.calls)]
    IN  /\ c.code # OtherError
        /\ \A i \in 1..Len(c.reasons) : c.reasons[i] # TransactionConflict

PutIdentityRetry(p) ==
    /\ PutIdentity(p)
    /\ FailuresOver => LastCallSound(inv'[p])

TransactRetry(p) ==
    /\ Transact(p)
    /\ FailuresOver => LastCallSound(inv'[p])

UpdateAttributesRetry(p) ==
    /\ UpdateAttributes(p)
    /\ FailuresOver => LastCallSound(inv'[p])

NextRetry ==
    \E p \in Procs :
        \/ Redeliver(p)
        \/ PutIdentityRetry(p)
        \/ TransactRetry(p)
        \/ UpdateAttributesRetry(p)

\* the next remote call of a started handler
HandlerStep(p) ==
    \/ PutIdentityRetry(p)
    \/ TransactRetry(p)
    \/ UpdateAttributesRetry(p)

SpecRetry ==
    /\ InitRetry
    /\ [][NextRetry]_vars
    /\ WF_vars(\E p \in Procs : Redeliver(p))
    /\ \A p \in Procs : WF_vars(HandlerStep(p))

\* the four records of a (user id, tenant id) are in the table
RecordsExist(u, t) ==
    /\ \E i \in store : /\ i.PK = TenantUserKey(t, u)
                        /\ StartsWith(i.SK, <<"IDENTITY", "#">>)
    /\ \E i \in store : IsProfile(i, t, u)
    /\ \E i \in store : IsSettings(i, t, u)
    /\ \E i \in store : IsMembership(i, t, u)

ReturnedNormally == \E p \in Procs : inv[p].pc = "returned"

\* an invocation has returned normally and the attributes of its user name
\* ids whose four records exist
ReturnedWithRecords ==
    \E p \in Procs :
        /\ inv[p].pc = "returned"
        /\ LET named == cognito[inv[p].event.userName]
           IN  /\ named.user_id # None
               /\ RecordsExist(named.user_id, named.tenant_id)

\* a sign-up confirmation that carries a subject and gets a tenant
Eligible(event) ==
    /\ event.triggerSource = ConfirmSignUp
    /\ Truthy(Get(event.request.userAttributes, "sub", None))
    /\ ~determine_tenant_id(config, event).raised
    /\ Truthy(determine_tenant_id(config, event).value)

EligibleDelivered ==
    \E p \in Procs : inv[p].pc # "idle" /\ Eligible(inv[p].event)

(***************************************************************************)
(* C28.  A confirmation event redelivered until an invocation returns      *)
(* normally, with transient failures, eventually has an invocation return  *)
(* normally in a state where the attributes of the user name a (user id,   *)
(* tenant id) whose identity link, profile, settings and membership exist. *)
(***************************************************************************)
C28_RedeliveryEndsLinked == <>ReturnedWithRecords

(***************************************************************************)
(* C28, amended.  For a sign-up confirmation that carries a subject and    *)
(* for which a tenant is determined, redelivery with transient failures    *)
(* leads to a normal return, and whenever an invocation of such an event   *)
(* has returned normally the attributes name ids whose four records exist. *)
(***************************************************************************)
C28_EligibleRedeliveryEndsLinked ==
    /\ EligibleDelivered ~> ReturnedNormally
    /\ [](EligibleDelivered /\ ReturnedNormally => ReturnedWithRecords)

\* the invocations of the first deliveries were failed by the service, the
\* event was delivered again after the failures had stopped, and that
\* invocation has returned with the records in place
C28_Witness ==
    /\ delivered > RetryFaultyDeliveries
    /\ EligibleDelivered
    /\ ReturnedWithRecords



(***************************************************************************)
(* The id generators (SpecUuid): uuidv7 of                                 *)
(* src/src/pre_sign_up_lambda/uuidv7.py and uuid7 of                       *)
(* src/src/post_token_generation_lambda/uuidv7.py, lines 10-47.            *)
(*                                                                         *)
(* Python's integers are unbounded and the id has 128 bits, so a number is *)
(* the sequence of its bits, the least significant first: 6 is <<0, 1, 1>>.*)
(* A value below 2^w is a sequence of w bits; << and | work on sequences   *)
(* of any length.                                                          *)
(***************************************************************************)
MaxIssued == 2

\* the widths of the layout (lines 17-20) and the shifts of lines 40-43
TimestampBits == 48
RandABits == 12
RandBBits == 62
TimestampShift == 80
VersionShift == 76
RandAShift == 64
VariantShift == 62
UuidBits == 128

\* lines 35 and 37
VERSION == 7
VARIANT == 2

\* the bits of a natural number
RECURSIVE BitsOf(_)
BitsOf(n) == IF n = 0 THEN <<>> ELSE <<n % 2>> \o BitsOf(n \div 2)

Zeros(w) == [i \in 1..w |-> 0]
Ones(w) == [i \in 1..w |-> 1]

\* bit i (from 0) of x
Bit(x, i) == IF i + 1 <= Len(x) THEN x[i + 1] ELSE 0

\* x << n
ShiftLeft(x, n) == Zeros(n) \o x

\* x | y
BitOr(x, y) ==
    [i \in 1..(IF Len(x) > Len(y) THEN Len(x) ELSE Len(y)) |->
        IF Bit(x, i - 1) = 1 \/ Bit(y, i - 1) = 1 THEN 1 ELSE 0]

\* the w bits of x from bit lo on
Field(x, lo, w) == [i \in 1..w |-> Bit(x, lo + i - 1)]

\* x < y for two numbers
RECURSIVE BitsLess(_, _, _)
BitsLess(x, y, i) ==
    IF i < 0 THEN FALSE
    ELSE IF Bit(x, i) # Bit(y, i) THEN Bit(x, i) < Bit(y, i)
    ELSE BitsLess(x, y, i - 1)

Less(x, y) ==
    BitsLess(x, y, (IF Len(x) > Len(y) THEN Len(x) ELSE Len(y)) - 1)

\* uuid.UUID(int=n) raises ValueError unless 0 <= n < 1 << 128
UUID(n) == \A i \in 1..Len(n) : i > UuidBits => n[i] = 0

\* the same with rand_a placed four bits higher
uuidv7_RandAOverVersion(unix_ts_ms, rand_a, rand_b) ==
    BitOr(BitOr(BitOr(BitOr(ShiftLeft(unix_ts_ms, TimestampShift),
                            ShiftLeft(BitsOf(VERSION), VersionShift)),
                      ShiftLeft(rand_a, RandAShift + 4)),
                ShiftLeft(BitsOf(VARIANT), VariantShift)),
          rand_b)

\* pre_sign_up_lambda/uuidv7.py, lines 40-44
uuidv7(unix_ts_ms, rand_a, rand_b) ==
    BitOr(BitOr(BitOr(BitOr(ShiftLeft(unix_ts_ms, TimestampShift),
                            ShiftLeft(BitsOf(VERSION), VersionShift)),
                      ShiftLeft(rand_a, RandAShift)),
                ShiftLeft(BitsOf(VARIANT), VariantShift)),
          rand_b)

\* post_token_generation_lambda/uuidv7.py, lines 40-44
uuid7(unix_ts_ms, rand_a, rand_b) ==
    BitOr(BitOr(BitOr(BitOr(ShiftLeft(unix_ts_ms, TimestampShift),
                            ShiftLeft(BitsOf(VERSION), VersionShift)),
                      ShiftLeft(rand_a, RandAShift)),
                ShiftLeft(BitsOf(VARIANT), VariantShift)),
          rand_b)

\* a single bit set, of w
OneAt(k, w) == [i \in 1..w |-> IF i = k + 1 THEN 1 ELSE 0]

\* time.time_ns() // 1_000_000 below 2^48: the least and the greatest value,
\* their neighbours and the top bit alone
Timestamps ==
    {Zeros(TimestampBits), OneAt(0, TimestampBits),
     OneAt(TimestampBits - 1, TimestampBits),
     [Ones(TimestampBits) EXCEPT ![1] = 0], Ones(TimestampBits)}

\* getrandbits(12) and getrandbits(62): nothing set, everything set
RandAs == {Zeros(RandABits), Ones(RandABits)}
RandBs == {Zeros(RandBBits), Ones(RandBBits)}

InitUuid ==
    /\ config = CfgDefault
    /\ store = {}
    /\ cognito = [u \in UserNames |-> [user_id |-> None, tenant_id |-> None]]
    /\ inv = [p \in Procs |-> Idle]
    /\ delivered = 0
    /\ returns = {}
    /\ resolved = {}
    /\ tokgen = TokIdle
    /\ issued = {}

\* one call of uuidv7 (pre-sign-up and post-confirmation), lines 23-47
CallUuidv7 ==
    /\ Cardinality(issued) < MaxIssued
    /\ \E unix_ts_ms \in Timestamps, rand_a \in RandAs, rand_b \in RandBs :
          /\ UUID(uuidv7(unix_ts_ms, rand_a, rand_b))
          /\ issued' = issued \cup
                 {[by |-> "uuidv7", unix_ts_ms |-> unix_ts_ms,
                   rand_a |-> rand_a, rand_b |-> rand_b,
                   uuid_int |-> uuidv7(unix_ts_ms, rand_a, rand_b)]}
    /\ UNCHANGED <<config, store, cognito, inv, delivered, returns,
                   resolved, tokgen>>

\* one call of uuid7 (post-token-generation), lines 23-47
CallUuid7 ==
    /\ Cardinality(issued) < MaxIssued
    /\ \E unix_ts_ms \in Timestamps, rand_a \in RandAs, rand_b \in RandBs :
          /\ UUID(uuid7(unix_ts_ms, rand_a, rand_b))
          /\ issued' = issued \cup
                 {[by |-> "uuid7", unix_ts_ms |-> unix_ts_ms,
                   rand_a |-> rand_a, rand_b |-> rand_b,
                   uuid_int |-> uuid7(unix_ts_ms, rand_a, rand_b)]}
    /\ UNCHANGED <<config, store, cognito, inv, delivered, returns,
                   resolved, tokgen>>

NextUuid == CallUuidv7 \/ CallUuid7

SpecUuid == InitUuid /\ [][NextUuid]_vars

\* the fields of the layout read back from an id
LayoutOf(id) ==
    [unixts_ms |-> Field(id, TimestampShift, TimestampBits),
     ver |-> Field(id, VersionShift, 4),
     rand_a |-> Field(id, RandAShift, RandABits),
     var |-> Field(id, VariantShift, 2),
     rand_b |-> Field(id, 0, RandBBits)]

(***************************************************************************)
(* C29.  Every id generated from a timestamp below 2^48, a rand_a below    *)
(* 2^12 and a rand_b below 2^62 fits 128 bits and holds the timestamp in   *)
(* its top 48 bits, version 7, rand_a, variant binary 10 and rand_b, each  *)
(* field intact; and of two ids the one of the strictly earlier            *)
(* millisecond is the lower.                                               *)
(***************************************************************************)
C29_LayoutAndOrder ==
    /\ \A r \in issued :
          /\ UUID(r.uuid_int)
          /\ LayoutOf(r.uuid_int) =
                 [unixts_ms |-> r.unix_ts_ms,
                  ver |-> <<1, 1, 1, 0>>,
                  rand_a |-> r.rand_a,
                  var |-> <<0, 1>>,
                  rand_b |-> r.rand_b]
    /\ \A r1, r2 \in issued :
          Less(r1.unix_ts_ms, r2.unix_ts_ms) => Less(r1.uuid_int, r2.uuid_int)

\* two ids one millisecond apart, the earlier with every random bit set and
\* the later with none
C29_Witness ==
    \E r1, r2 \in issued :
        /\ r1.unix_ts_ms = [Ones(TimestampBits) EXCEPT ![1] = 0]
        /\ r2.unix_ts_ms = Ones(TimestampBits)
        /\ r1.rand_a = Ones(RandABits) /\ r1.rand_b = Ones(RandBBits)
        /\ r2.rand_a = Zeros(RandABits) /\ r2.rand_b = Zeros(RandBBits)
        /\ Less(r1.uuid_int, r2.uuid_int)


=============================================================================
